---- MODULE Spec2Model ----
(***************************************************************************)
(* State-machine model of the POF journal scraper (src/main.py).           *)
(*   Spec        scrape_and_process, save_progress and load_progress over  *)
(*               a file store that outlives the process; a behaviour is a  *)
(*               sequence of runs, each ending by returning, by raising,   *)
(*               or by the process being terminated.                       *)
(*   SpecStore   save_progress and load_progress called directly.          *)
(*   SpecArticle one run with process_article taken step by step: title    *)
(*               prefilter, the two download strategies, extraction,       *)
(*               content filter, and the headless browser.                 *)
(*   SpecAcquire the two download strategies called on one reference.      *)
(*   SpecTitle   should_process_article called directly.                   *)
(***************************************************************************)
EXTENDS Integers, Sequences, FiniteSets, Bags, TLC

(* ------------------------------ bounds -------------------------------- *)
NumIssues == 2      \* issues the archive lists
MaxArticles == 2    \* articles an issue page lists, at most
MaxInterval == 2    \* save_interval ranges over 1..MaxInterval
MaxRuns == 2        \* runs of scrape_and_process in one behaviour
MaxTextLen == 2     \* characters of a text handed to the store directly
MaxSaves == 2       \* direct save_progress calls on the store

(* ------------------------- values and encodings ----------------------- *)
\* None / "" for resume_from and current_issue; None / 0 for the limits
\* (both are falsy in the guards of scrape_and_process).
NoIssue == 0
NoLimit == 0

\* Characters of a text, as code points: carriage return, line feed, and
\* one ordinary character ("X").
CR == 13
LF == 10
CharX == 88

\* Article identifiers are taken from the article URL (/view/<digits>): one
\* per article.  Identifiers start above every character code.
IdStride == 100
ArticleId(i, k) == i * IdStride + k

Range(s) == {s[j] : j \in 1..Len(s)}
Min(a, b) == IF a < b THEN a ELSE b
IsPrefix(s, t) == Len(s) <= Len(t) /\ SubSeq(t, 1, Len(s)) = s

\* The archive lists the newest issue first.
Discovered == [j \in 1..NumIssues |-> NumIssues + 1 - j]
Issues == 1..NumIssues

VARIABLES
  \* inputs, fixed over a behaviour
  narts,            \* narts[i]: articles listed on the page of issue i
  ok,               \* ok[a]: process_article returns a record for article a
  save_interval,    \* scraper.save_interval
  limit_articles,   \* limit_articles argument
  platform,         \* "posix" or "windows": os.linesep of the text files
  \* the persisted files
  progress_file,    \* scraping_progress.json
  partial_file,     \* all_articles_partial.txt
  final_file,       \* all_articles.txt
  \* the running call of scrape_and_process
  run,              \* number of calls started so far
  pc,               \* position of the call
  resume_from,      \* scraper.resume_from
  limit_issues,     \* limit_issues argument
  issue_links,      \* the work list
  issue_idx,        \* 1-based position of issue_url in issue_links, 0 before the loop
  article_idx,      \* articles of the current issue already iterated
  processed_issues, \* done-set returned by load_progress
  newly_processed_issues,
  all_articles_text,
  processed_count,
  issue_articles_processed,
  save_args,        \* arguments of the save_progress call in progress
  ret,              \* where the save_progress call in progress returns to
  exc,              \* exception caught by the except clause, "" if none
  propagated,       \* exception that left scrape_and_process, "" if none
  \* history
  save_seq,         \* number of save_progress calls started so far
  handled,          \* articles for which process_article has returned
  start,            \* the checkpoint the call found when it started, and the corpus it loaded
  produced,         \* records process_article returned in this call, in order
  hist,             \* what the call did: saves completed, handler save, final write
  prev,             \* summary of the previous call
  loaded,           \* result of the last direct load_progress call
  \* the headless browser
  driver,           \* self.driver holds a WebDriver (TRUE) or None (FALSE)
  browser,          \* a browser session started by the scraper is live
  \* the running call of process_article
  article_data,     \* which keys the article's record has
  pdf_file,         \* the file article_<id>.pdf in pdf_dir
  requests,         \* network requests made since the call (or the acquisition) began
  retry,            \* failed attempts of the retry loop
  slept,            \* the waits of the retry loop, in seconds and in order
  events,           \* strategy calls, their results and detector failures, in order
  pdf_path,         \* a strategy returned a path (TRUE) or None (FALSE)
  extracted,        \* what extract_text_from_pdf returned
  fail,             \* the stage that made process_article return None
  returned,         \* the return value of process_article: "none" or "record"
  \* history of direct acquisitions and of the title prefilter
  acq,              \* the previous acquisition of the same reference
  title_check,      \* a title, the detector's answer and the prefilter's verdict
  \* text extraction and the pure text functions
  ext,              \* the running call of extract_text_from_pdf
  direct            \* a direct call of a pure function: arguments and result

inputs == <<narts, ok, save_interval, limit_articles, platform>>
store == <<progress_file, partial_file, final_file>>
params == <<resume_from, limit_issues>>
loopv == <<issue_links, issue_idx, article_idx, processed_issues,
           newly_processed_issues, all_articles_text, processed_count,
           issue_articles_processed>>
callv == <<save_args, ret, exc, propagated>>
ghost == <<save_seq, handled, start, produced, hist, prev, loaded>>
chrome == <<driver, browser>>
artv == <<article_data, pdf_file, requests, retry, slept, events, pdf_path, extracted, fail,
          returned, acq, title_check, ext, direct>>
vars == <<inputs, store, run, pc, params, loopv, callv, ghost, chrome, artv>>


(* ------------------------ the text files ------------------------------ *)
\* open(path, 'w', encoding='utf-8') then f.write(text): text mode writes
\* every "\n" as os.linesep.
RECURSIVE WriteText(_, _)
WriteText(t, plat) ==
  IF t = <<>> THEN <<>>
  ELSE IF t[1] = LF /\ plat = "windows"
       THEN <<CR, LF>> \o WriteText(Tail(t), plat)
       ELSE <<t[1]>> \o WriteText(Tail(t), plat)

\* open(path, 'r', encoding='utf-8') then f.read(): text mode with universal
\* newlines reads "\r\n" and a lone "\r" as "\n".
RECURSIVE ReadText(_)
ReadText(t) ==
  IF t = <<>> THEN <<>>
  ELSE IF t[1] = CR
       THEN <<LF>> \o ReadText(IF Len(t) >= 2 /\ t[2] = LF
                                THEN SubSeq(t, 3, Len(t)) ELSE Tail(t))
       ELSE <<t[1]>> \o ReadText(Tail(t))

\* The files before anything was written.
NoProgressFile == [st |-> "absent", current_issue |-> NoIssue,
                   processed_issues |-> <<>>, stamp |-> 0]
NoTextFile == [exists |-> FALSE, text |-> <<>>, stamp |-> 0, whole |-> FALSE]

\* json.dump(progress_data, f) into the freshly opened progress file.
DumpProgress(issue_url, all_processed, seq) ==
  [st |-> "ok", current_issue |-> issue_url,
   processed_issues |-> all_processed, stamp |-> seq]

\* The progress file after open(..., 'w') truncated it and the dump did not
\* complete: no JSON document.
TruncatedProgress(seq) ==
  [st |-> "corrupt", current_issue |-> NoIssue,
   processed_issues |-> <<>>, stamp |-> seq]

\* f.write(all_articles_text) into the freshly opened partial file.
DumpText(text, plat, seq) ==
  [exists |-> TRUE, text |-> WriteText(text, plat), stamp |-> seq, whole |-> TRUE]

\* The partial file after open(..., 'w') truncated it and the write did not
\* complete.
TruncatedText(seq) ==
  [exists |-> TRUE, text |-> <<>>, stamp |-> seq, whole |-> FALSE]

EmptyProgress == [current_issue |-> NoIssue, processed_issues |-> <<>>,
                  all_articles_text |-> <<>>]

\* load_progress without the read of the partial file.
LoadProgressNoText(pf, tf) ==
  IF pf.st = "ok"
  THEN [current_issue |-> pf.current_issue, processed_issues |-> pf.processed_issues,
        all_articles_text |-> <<>>]
  ELSE EmptyProgress

\* load_progress: the defaults when the progress file is missing or does not
\* parse; otherwise the document's fields and the partial file's text ("" when
\* the partial file is missing).
LoadProgress(pf, tf) ==
  IF pf.st = "absent" THEN EmptyProgress
  ELSE IF pf.st = "corrupt" THEN EmptyProgress
  ELSE [current_issue |-> pf.current_issue,
        processed_issues |-> pf.processed_issues,
        all_articles_text |-> IF tf.exists THEN ReadText(tf.text) ELSE <<>>]

(* ------------------------ the work list ------------------------------- *)
\* issue_links.index(x): position of the first occurrence.
IndexOf(s, x) == CHOOSE j \in 1..Len(s) : s[j] = x /\ \A m \in 1..(j - 1) : s[m] # x

\* [url for url in issue_links if url not in processed_issues]
FilterProcessed(links, done) == SelectSeq(links, LAMBDA u : u \notin Range(done))

\* The resume policy with the slice starting one entry late.
ResumeWorkListLate(links, resume, done) ==
  IF resume # NoIssue
  THEN IF resume \in Range(links)
       THEN SubSeq(links, IndexOf(links, resume) + 1, Len(links))
       ELSE IF done # <<>> THEN FilterProcessed(links, done) ELSE links
  ELSE links

\* Lines 1144-1156: the resume policy.
ResumeWorkList(links, resume, done) ==
  IF resume # NoIssue
  THEN IF resume \in Range(links)
       THEN SubSeq(links, IndexOf(links, resume), Len(links))
       ELSE IF done # <<>> THEN FilterProcessed(links, done) ELSE links
  ELSE links

\* Lines 1159-1160: issue_links[:limit_issues] when the limit is set and positive.
LimitIssues(links, limit) ==
  IF limit # NoLimit /\ limit > 0 THEN SubSeq(links, 1, Min(limit, Len(links))) ELSE links

\* get_article_links_from_issue, then article_data_list[:limit_articles].
ArticleDataList(i) ==
  [k \in 1..(IF limit_articles # NoLimit /\ limit_articles > 0
             THEN Min(limit_articles, narts[i]) ELSE narts[i]) |-> ArticleId(i, k)]

\* process_article returns one formatted record for an accepted article; its
\* text is carried as one unit named by the article.
ProcessArticle(a) == <<a>>

\* all_articles_text = article_text: assignment in place of +=.
AssignOverallText(text, article_text) == article_text

\* all_articles_text += article_text
AddToOverallText(text, article_text) == text \o article_text

\* A periodic save that comes one record late.
SaveDueLate(count, interval) == count % (interval + 1) = 0

\* processed_count % self.save_interval == 0
SaveDue(count, interval) == count % interval = 0

\* processed_issues + newly_processed_issues
AllProcessed(done, newly) == done \o newly

AllArticles == {ArticleId(i, k) : i \in Issues, k \in 1..MaxArticles}

(* ---------------------- the downloaded documents ---------------------- *)
\* Lines 519 and 594: the size threshold, in bytes.  Line 567: max_retries.
SizeFloor == 1000
max_retries == 5

Sizes == {SizeFloor - 1, SizeFloor, SizeFloor + 1}

\* article_<id>.pdf: absent, or a file of some size that begins with b'%PDF-'
\* or does not; complete tells that the body of a response was written to it
\* to the end.
NoFile == [exists |-> FALSE, size |-> 0, pdf_sig |-> FALSE, complete |-> FALSE]
Files ==
  {[exists |-> TRUE, size |-> z, pdf_sig |-> g, complete |-> TRUE] :
     z \in Sizes, g \in BOOLEAN}

\* Lines 587-589 and 654-656: the file as it is left when iter_content raises
\* while the body is being written: open(pdf_path, 'wb') has made the file and
\* the chunks written so far are in it.
PartialFiles == {[f EXCEPT !.complete = FALSE] : f \in Files}

\* Line 519: os.path.exists(pdf_path) and os.path.getsize(pdf_path) > 1000
AlreadyHave(f) == f.exists /\ f.size > SizeFloor

\* Lines 594-600: the downloaded file is refused when it is smaller than 1000
\* bytes and its first five bytes are not b'%PDF-'.
ValidPdf(f) == ~(f.size < SizeFloor /\ ~f.pdf_sig)

\* Lines 576-584: the failed attempt was the last one.
LastAttempt(r) == ~(r < max_retries - 1)

\* Line 568: the first wait of the retry loop, in seconds.
retry_delay == 2

\* A wait that grows by retry_delay with every failure.
BackoffDelayLinear(r) == retry_delay * (r + 1)

\* Line 578: wait_time = retry_delay * (2 ** retry), retry counted from 0.
BackoffDelay(r) == retry_delay * 2^r

\* The keys of an article's record that process_article reads: title and
\* article_url (set together), authors and pages, pdf_url.
NoArticle == [has_url |-> FALSE, has_meta |-> FALSE, has_pdf_url |-> FALSE]
ArticleRecords == {d \in [has_url : BOOLEAN, has_meta : BOOLEAN, has_pdf_url : BOOLEAN] :
                     d.has_url \/ d.has_pdf_url}

\* What extract_text_from_pdf returns: "" , a text of at most 50 characters
\* once stripped, or a longer one.
ExtractedTexts == {"empty", "short", "long"}

\* len(text.strip()) > 50, on the three kinds of text.
EnoughText(t) == t = "long"

CharA == 97    \* "a"

\* Line 793: the class [А-Яа-я] of cyrillic_pattern, U+0410 to U+044F.
CyrillicCapitalA == 1040
CyrillicSmallYa == 1103
\* Two Cyrillic letters outside that class: U+0451 and U+0458.
CyrillicSmallIo == 1105
CyrillicSmallJe == 1112

\* Lines 780-797: _contains_cyrillic, the text a sequence of code points.
ContainsCyrillic(t) ==
  t # <<>> /\ \E k \in 1..Len(t) : t[k] \in CyrillicCapitalA..CyrillicSmallYa

\* What detect_langs and the text give the content filter: a probability above
\* 0.7 for bs/hr/sr, one above 0.8 for sl/mk, the number of indicator words in
\* the first 500 characters, and the one letter of the text that is not plain
\* Latin, if it has one ("a" stands for a text without).
IndicatorFloor == 5
Letters == {CharA, CyrillicCapitalA, CyrillicSmallYa, CyrillicSmallIo, CyrillicSmallJe}
Contents == [target : BOOLEAN, related : BOOLEAN,
             indicators : {IndicatorFloor, IndicatorFloor + 1}, letter : Letters]

\* Lines 1025-1047: is_desired_language.
IsDesiredLanguage(c) ==
  \/ c.target
  \/ c.related /\ c.indicators > IndicatorFloor
  \/ ContainsCyrillic(<<c.letter>>)

NoAcq == [calls |-> 0, path |-> FALSE, file |-> NoFile, requests |-> {},
          before |-> [path |-> FALSE, file |-> NoFile]]

(* ------------------------ the title prefilter ------------------------- *)
MaxTitleWords == 2  \* words of a title, at most

\* A title is a sequence of words; the words that matter to the prefilter are
\* those that hold a keyword, in upper, mixed or lower case, and those that
\* hold none.
TitleWords == {"Prilozi", "REVIEW", "Reviewer", "Analiz", "rukopisi"}

\* str.lower() on a word.
Lower(w) ==
  CASE w = "Prilozi" -> "prilozi"
    [] w = "REVIEW" -> "review"
    [] w = "Reviewer" -> "reviewer"
    [] w = "Analiz" -> "analiz"
    [] OTHER -> w

\* title.lower()
TitleLower(words) == [j \in DOMAIN words |-> Lower(words[j])]

\* Lines 964-965 (the Turkish keywords are written here without diacritics).
english_keywords == {"introduction", "abstract", "summary", "review", "analysis",
                     "studies", "research"}
turkish_keywords == {"ozet", "giris", "sonuc", "analiz", "arastirma", "calisma"}

\* keyword in title_lower: the keyword is a substring of the lowercased title.
KeywordIn(k, lowered) ==
  \E j \in DOMAIN lowered : lowered[j] = k \/ (lowered[j] = "reviewer" /\ k = "review")

\* What langdetect.detect(title) can do: return a language code, or raise.
Langs == {"en", "tr", "hr", "de"}
DetectRaises == "raise"
NotCalled == "not_called"

NoTitle == [present |-> FALSE, words |-> <<>>]
Titles == {NoTitle} \cup
          {[present |-> TRUE, words |-> w] :
             w \in UNION {[1..n -> TitleWords] : n \in 0..MaxTitleWords}}

\* article_data.get('title', '')
TitleOf(t) == IF t.present THEN t.words ELSE <<>>

\* should_process_article with the keyword test left out.
ShouldProcessArticleNoKeywords(t, detected_lang) ==
  IF TitleOf(t) = <<>> THEN TRUE
  ELSE IF detected_lang = DetectRaises THEN TRUE
  ELSE detected_lang \notin {"en", "tr"}

\* should_process_article that rejects when detection raises.
ShouldProcessArticleFailClosed(t, detected_lang) ==
  IF TitleOf(t) = <<>> THEN TRUE
  ELSE IF detected_lang = DetectRaises THEN FALSE
  ELSE IF detected_lang \in {"en", "tr"} THEN FALSE
  ELSE ~\E k \in english_keywords \cup turkish_keywords : KeywordIn(k, TitleLower(TitleOf(t)))

\* should_process_article (lines 940-974); detected_lang is what detect(title)
\* does when it is called.
ShouldProcessArticle(t, detected_lang) ==
  IF TitleOf(t) = <<>> THEN TRUE
  ELSE IF detected_lang = DetectRaises THEN TRUE
  ELSE IF detected_lang \in {"en", "tr"} THEN FALSE
  ELSE IF \E k \in english_keywords \cup turkish_keywords :
            KeywordIn(k, TitleLower(TitleOf(t)))
       THEN FALSE
       ELSE TRUE

NoTitleCheck == [done |-> FALSE, title |-> NoTitle, detected |-> NotCalled,
                 verdict |-> TRUE]

(* ------------------------ text extraction ------------------------------ *)
SP == 32       \* a space
CharO == 111   \* "o"

MaxPages == 3  \* pages of a document

\* page.extract_text() on one page: it raises, returns None or '', returns
\* white space only, or returns text.
PageOutcomes == {"raise", "none", "blank", "text"}

\* The text of page j (counted from 1) under an outcome that returns one; the
\* pages of a document differ in their text.
PageText(j, o) ==
  IF o = "text" THEN <<CharA + j>> ELSE IF o = "blank" THEN <<SP>> ELSE <<>>

\* convert_from_path and image_to_string over the page images: one of them
\* raises, or the recognised text is blank, or it is text.
OcrOutcomes == {"raise", "blank", "text"}

\* Lines 757-762: ocr_text is every image's text followed by "\n\n".
OcrText(o) == IF o = "text" THEN <<CharO, LF, LF>> ELSE <<LF, LF>>

\* A call of extract_text_from_pdf: whether pdf_path names an existing file,
\* whether the file opens as a PDF, what each page and the OCR pass do, and the
\* module's ocr_available.
Docs == [path : BOOLEAN, opens : BOOLEAN,
         pages : UNION {[1..n -> PageOutcomes] : n \in 0..MaxPages},
         ocr_available : BOOLEAN, ocr : OcrOutcomes]

\* str.strip() leaves nothing: the text is empty or white space.
Blank(t) == \A j \in 1..Len(t) : t[j] \in {SP, LF, CR}

NoDoc == [path |-> FALSE, opens |-> FALSE, pages |-> <<>>, ocr_available |-> FALSE,
          ocr |-> "raise"]
NoExt == [doc |-> NoDoc, page_num |-> 0, text |-> <<>>, primary |-> <<>>,
          ocr_ran |-> FALSE, done |-> FALSE, result |-> <<>>, raised |-> FALSE]

\* No pure function has been called.
NoDirect == [done |-> FALSE]

(* ------------------------------ Init ---------------------------------- *)
NoStart == [ckpt |-> FALSE, cur |-> NoIssue, done |-> <<>>, text |-> <<>>, seq |-> 0,
            loaded |-> <<>>]
NoHist == [saves |-> 0, handler_save |-> FALSE, final_written |-> FALSE,
           in_loop |-> FALSE]
NoPrev == [killed_after_save |-> FALSE, fresh |-> FALSE]
NoArgs == [issue_url |-> NoIssue, all_processed |-> <<>>, text |-> <<>>]
NoLoaded == [valid |-> FALSE, absent |-> FALSE, result |-> EmptyProgress, saved |-> NoArgs]

\* No call of process_article is running.
ArticleInit ==
  /\ article_data = NoArticle
  /\ pdf_file = NoFile
  /\ requests = {}
  /\ retry = 0
  /\ slept = <<>>
  /\ events = <<>>
  /\ pdf_path = FALSE
  /\ extracted = ""
  /\ fail = ""
  /\ returned = ""

LoopInit ==
  /\ issue_links = <<>>
  /\ issue_idx = 0
  /\ article_idx = 0
  /\ processed_issues = <<>>
  /\ newly_processed_issues = <<>>
  /\ all_articles_text = <<>>
  /\ processed_count = 0
  /\ issue_articles_processed = 0

CommonInit ==
  /\ progress_file = NoProgressFile
  /\ partial_file = NoTextFile
  /\ final_file = NoTextFile
  /\ run = 0
  /\ resume_from = NoIssue
  /\ limit_issues = NoLimit
  /\ LoopInit
  /\ save_args = NoArgs
  /\ ret = ""
  /\ exc = ""
  /\ propagated = ""
  /\ save_seq = 0
  /\ handled = {}
  /\ start = NoStart
  /\ produced = <<>>
  /\ hist = NoHist
  /\ prev = NoPrev
  /\ loaded = NoLoaded
  /\ driver = FALSE
  /\ browser = FALSE
  /\ ArticleInit
  /\ acq = NoAcq
  /\ title_check = NoTitleCheck
  /\ ext = NoExt
  /\ direct = NoDirect

\* The scraper is constructed and none of its methods is running.
QuietInit ==
  /\ narts = [i \in Issues |-> 0]
  /\ ok = [a \in AllArticles |-> FALSE]
  /\ save_interval = 1
  /\ limit_articles = NoLimit
  /\ platform = "posix"
  /\ progress_file = NoProgressFile
  /\ partial_file = NoTextFile
  /\ final_file = NoTextFile
  /\ run = 0
  /\ resume_from = NoIssue
  /\ limit_issues = NoLimit
  /\ LoopInit
  /\ save_args = NoArgs
  /\ ret = ""
  /\ exc = ""
  /\ propagated = ""
  /\ save_seq = 0
  /\ handled = {}
  /\ start = NoStart
  /\ produced = <<>>
  /\ hist = NoHist
  /\ prev = NoPrev
  /\ loaded = NoLoaded
  /\ driver = FALSE
  /\ browser = FALSE
  /\ ArticleInit
  /\ acq = NoAcq
  /\ title_check = NoTitleCheck

Init ==
  /\ narts \in [Issues -> 0..MaxArticles]
  /\ ok \in [AllArticles -> BOOLEAN]
  /\ save_interval \in 1..MaxInterval
  /\ limit_articles \in {NoLimit, 1}
  \* ok is fixed where no article is iterated, and a limit is one that cuts a list
  /\ \A i \in Issues : \A k \in 1..MaxArticles :
        k > Len(ArticleDataList(i)) => ~ok[ArticleId(i, k)]
  /\ limit_articles # NoLimit => \E i \in Issues : narts[i] > limit_articles
  /\ platform = "posix"
  /\ pc = "idle"
  /\ CommonInit

(* --------------------------- helpers ---------------------------------- *)
\* issue_url of the running loop iteration.
IssueUrl == issue_links[issue_idx]

InSave == pc \in {"save_progress_file", "save_partial_file"}

\* A call of save_progress(issue_url, all_processed, text) begins; it returns to r.
BeginSave(issue_url, all_processed, text, r) ==
  /\ save_args' = [issue_url |-> issue_url, all_processed |-> all_processed, text |-> text]
  /\ ret' = r
  /\ pc' = "save_progress_file"

\* Memory of the process is gone once the call has ended; prev keeps how it
\* ended.
CallReset ==
  /\ resume_from' = NoIssue
  /\ limit_issues' = NoLimit
  /\ save_args' = NoArgs
  /\ ret' = ""
  /\ exc' = ""
  /\ propagated' = ""
  /\ start' = NoStart
  /\ produced' = <<>>
  /\ hist' = NoHist

LoopReset ==
  /\ issue_links' = <<>>
  /\ issue_idx' = 0
  /\ article_idx' = 0
  /\ processed_issues' = <<>>
  /\ newly_processed_issues' = <<>>
  /\ all_articles_text' = <<>>
  /\ processed_count' = 0
  /\ issue_articles_processed' = 0

(* ---------------------- scrape_and_process ---------------------------- *)
\* Lines 1137-1168: discover the issues, load the checkpoint when resume_from
\* is set, build the work list, reset the counters.
StartRun(r, l) ==
  /\ pc \in {"idle", "done"}
  /\ run < MaxRuns
  /\ LET got == IF r # NoIssue THEN LoadProgress(progress_file, partial_file)
                ELSE EmptyProgress
     IN /\ issue_links' = LimitIssues(ResumeWorkList(Discovered, r, got.processed_issues), l)
        /\ processed_issues' = got.processed_issues
        /\ all_articles_text' = got.all_articles_text
  /\ run' = run + 1
  /\ resume_from' = r
  /\ limit_issues' = l
  /\ issue_idx' = 0
  /\ article_idx' = 0
  /\ newly_processed_issues' = <<>>
  /\ processed_count' = 0
  /\ issue_articles_processed' = 0
  /\ pc' = "issue_loop"
  /\ exc' = ""
  /\ propagated' = ""
  /\ start' = [ckpt |-> progress_file.st = "ok",
               cur |-> progress_file.current_issue,
               done |-> progress_file.processed_issues,
               text |-> IF progress_file.st = "ok" /\ partial_file.exists
                        THEN ReadText(partial_file.text) ELSE <<>>,
               seq |-> save_seq,
               loaded |-> IF r # NoIssue
                          THEN LoadProgress(progress_file, partial_file).all_articles_text
                          ELSE <<>>]
  /\ hist' = NoHist
  /\ produced' = <<>>
  /\ UNCHANGED <<inputs, chrome, artv, store, save_args, ret, save_seq, handled, prev, loaded>>

\* Lines 1171-1182: the next issue of the work list, or the end of the loop.
NextIssue ==
  /\ pc = "issue_loop"
  /\ IF issue_idx < Len(issue_links)
     THEN /\ issue_idx' = issue_idx + 1
          /\ article_idx' = 0
          /\ issue_articles_processed' = 0
          /\ pc' = "article_loop"
     ELSE /\ pc' = "write_final"
          /\ UNCHANGED <<issue_idx, article_idx, issue_articles_processed>>
  /\ UNCHANGED <<inputs, chrome, artv, store, run, params, issue_links, processed_issues,
                 newly_processed_issues, all_articles_text, processed_count,
                 callv, ghost>>

\* The loop treating a None from process_article as an error of the run.
SkipArticleAborts(a) ==
  /\ handled' = handled \cup {a}
  /\ exc' = "ArticleError"
  /\ hist' = [hist EXCEPT !.in_loop = TRUE]
  /\ pc' = "except"
  /\ UNCHANGED <<inputs, store, run, params, loopv, save_args, ret, propagated,
                 save_seq, start, produced, prev, loaded>>

\* Lines 1193-1195: process_article returned None for article a; continue
\* with the next article.
SkipArticle(a) ==
  /\ handled' = handled \cup {a}
  /\ article_idx' = article_idx + 1
  /\ pc' = "article_loop"
  /\ UNCHANGED <<inputs, store, run, params, issue_links, issue_idx,
                 processed_issues, newly_processed_issues, all_articles_text,
                 processed_count, issue_articles_processed, callv,
                 save_seq, start, produced, hist, prev, loaded>>

\* Lines 1197-1216: process_article returned a record for article a; append it,
\* count it, and begin the periodic save when the count is a multiple of
\* save_interval.
RecordArticle(a) ==
  /\ LET article_text == ProcessArticle(a)
         text == AddToOverallText(all_articles_text, article_text)
     IN /\ handled' = handled \cup {a}
        /\ produced' = produced \o article_text
        /\ all_articles_text' = text
        /\ processed_count' = processed_count + 1
        /\ issue_articles_processed' = issue_articles_processed + 1
        /\ article_idx' = article_idx + 1
        /\ IF SaveDue(processed_count + 1, save_interval)
           THEN /\ newly_processed_issues' = Append(newly_processed_issues, IssueUrl)
                /\ BeginSave(IssueUrl,
                             AllProcessed(processed_issues, Append(newly_processed_issues, IssueUrl)),
                             text, "article_loop")
           ELSE /\ pc' = "article_loop"
                /\ UNCHANGED <<newly_processed_issues, save_args, ret>>
  /\ UNCHANGED <<inputs, store, run, params, issue_links, issue_idx, processed_issues,
                 exc, propagated, save_seq, start, hist, prev, loaded>>

\* Lines 1185-1195, process_article taken as one step: it returns None.
ArticleSkipped ==
  /\ pc = "article_loop"
  /\ article_idx < Len(ArticleDataList(IssueUrl))
  /\ LET a == ArticleDataList(IssueUrl)[article_idx + 1]
     IN ~ok[a] /\ SkipArticle(a)
  /\ UNCHANGED <<chrome, artv>>

\* Lines 1185-1216, process_article taken as one step: it returns a record.
ArticleRecorded ==
  /\ pc = "article_loop"
  /\ article_idx < Len(ArticleDataList(IssueUrl))
  /\ LET a == ArticleDataList(IssueUrl)[article_idx + 1]
     IN ok[a] /\ RecordArticle(a)
  /\ UNCHANGED <<chrome, artv>>

\* An exception that no stage catches is raised while an article is being
\* processed (lines 1186-1203).
ArticleRaises ==
  /\ pc = "article_loop"
  /\ article_idx < Len(ArticleDataList(IssueUrl))
  /\ exc' = "ArticleError"
  /\ hist' = [hist EXCEPT !.in_loop = TRUE]
  /\ pc' = "except"
  /\ UNCHANGED <<inputs, chrome, artv, store, run, params, loopv, save_args, ret, propagated,
                 save_seq, handled, start, produced, prev, loaded>>

\* Lines 1218-1222: the article loop of the issue has ended.
EndIssue ==
  /\ pc = "article_loop"
  /\ article_idx = Len(ArticleDataList(IssueUrl))
  /\ IF issue_articles_processed > 0 /\ IssueUrl \notin Range(newly_processed_issues)
     THEN /\ newly_processed_issues' = Append(newly_processed_issues, IssueUrl)
          /\ BeginSave(IssueUrl,
                       AllProcessed(processed_issues, Append(newly_processed_issues, IssueUrl)),
                       all_articles_text, "issue_loop")
     ELSE /\ pc' = "issue_loop"
          /\ UNCHANGED <<newly_processed_issues, save_args, ret>>
  /\ UNCHANGED <<inputs, chrome, artv, store, run, params, issue_links, issue_idx, article_idx,
                 processed_issues, all_articles_text, processed_count,
                 issue_articles_processed, exc, propagated,
                 save_seq, handled, start, produced, hist, prev, loaded>>

(* --------------------------- save_progress ---------------------------- *)
\* save_progress returns to its caller: the article loop (then
\* update_session_headers and the delay), the issue loop, the bare raise of
\* the except clause, or a direct caller of the store.
SaveReturns ==
  /\ pc' = CASE ret = "article_loop" -> "article_loop"
             [] ret = "issue_loop" -> "issue_loop"
             [] ret = "reraise" -> "finally"
             [] OTHER -> "store_idle"
  /\ propagated' = IF ret = "reraise" THEN exc ELSE propagated
  /\ ret' = IF ret = "store" THEN "saved" ELSE ""
  /\ UNCHANGED exc

\* A write of save_progress raises: inside the try body the except clause
\* catches it; inside the except clause it replaces the exception being
\* handled and leaves scrape_and_process.
SaveRaises ==
  /\ pc' = CASE ret \in {"article_loop", "issue_loop"} -> "except"
             [] ret = "reraise" -> "finally"
             [] OTHER -> "store_idle"
  /\ exc' = IF ret \in {"article_loop", "issue_loop"} THEN "SaveError" ELSE exc
  /\ propagated' = IF ret = "reraise" THEN "HandlerSaveError" ELSE propagated
  /\ hist' = IF ret \in {"article_loop", "issue_loop"}
             THEN [hist EXCEPT !.in_loop = TRUE] ELSE hist
  /\ ret' = IF ret = "store" THEN "failed" ELSE ""

\* Lines 1088-1090: the progress document is written.
SaveProgressFile ==
  /\ pc = "save_progress_file"
  /\ progress_file' = DumpProgress(save_args.issue_url, save_args.all_processed, save_seq + 1)
  /\ save_seq' = save_seq + 1
  /\ pc' = "save_partial_file"
  /\ UNCHANGED <<inputs, chrome, artv, partial_file, final_file, run, params, loopv, callv,
                 handled, start, produced, hist, prev, loaded>>

\* Lines 1088-1090: the progress file is opened (and so truncated) and the
\* dump raises.
SaveProgressFileFails ==
  /\ pc = "save_progress_file"
  /\ progress_file' = TruncatedProgress(save_seq + 1)
  /\ save_seq' = save_seq + 1
  /\ SaveRaises
  /\ UNCHANGED <<inputs, chrome, artv, partial_file, final_file, run, params, loopv, save_args,
                 handled, start, produced, prev, loaded>>

\* Lines 1092-1097: the corpus snapshot is written; save_progress returns.
SavePartialFile ==
  /\ pc = "save_partial_file"
  /\ partial_file' = DumpText(save_args.text, platform, save_seq)
  /\ hist' = [hist EXCEPT !.saves = hist.saves + 1]
  /\ SaveReturns
  /\ UNCHANGED <<inputs, chrome, artv, progress_file, final_file, run, params, loopv, save_args,
                 save_seq, handled, start, produced, prev, loaded>>

\* Lines 1092-1095: the partial file is opened (and so truncated) and the
\* write raises.
SavePartialFileFails ==
  /\ pc = "save_partial_file"
  /\ partial_file' = TruncatedText(save_seq)
  /\ SaveRaises
  /\ UNCHANGED <<inputs, chrome, artv, progress_file, final_file, run, params, loopv, save_args,
                 save_seq, handled, start, produced, prev, loaded>>

(* ------------------- the end of scrape_and_process -------------------- *)
\* Lines 1224-1233: the final corpus file is written, the call returns.
WriteFinal ==
  /\ pc = "write_final"
  /\ final_file' = DumpText(all_articles_text, platform, 0)
  /\ hist' = [hist EXCEPT !.final_written = TRUE]
  /\ pc' = "finally"
  /\ UNCHANGED <<inputs, chrome, artv, progress_file, partial_file, run, params, loopv, callv,
                 save_seq, handled, start, produced, prev, loaded>>

\* Lines 1225-1227: the final file is opened (and so truncated) and the write
\* raises.
WriteFinalFails ==
  /\ pc = "write_final"
  /\ final_file' = TruncatedText(0)
  /\ exc' = "FinalWriteError"
  /\ pc' = "except"
  /\ UNCHANGED <<inputs, chrome, artv, progress_file, partial_file, run, params, loopv,
                 save_args, ret, propagated, ghost>>

\* Lines 1235-1244: the except clause.  issue_url is a local once the issue
\* loop has started an iteration; processed_issues is one from line 1143 on.
ExceptHandler ==
  /\ pc = "except"
  /\ IF issue_idx >= 1
     THEN /\ BeginSave(IssueUrl, AllProcessed(processed_issues, newly_processed_issues),
                       all_articles_text, "reraise")
          /\ hist' = [hist EXCEPT !.handler_save = TRUE]
          /\ UNCHANGED propagated
     ELSE /\ propagated' = exc
          /\ pc' = "finally"
          /\ UNCHANGED <<save_args, ret, hist>>
  /\ UNCHANGED <<inputs, chrome, artv, store, run, params, loopv, exc,
                 save_seq, handled, start, produced, prev, loaded>>

\* close_chrome_driver with the reference kept and quit() not called.
LeaveChromeDriver == UNCHANGED <<driver, browser>>

\* close_chrome_driver (lines 246-254): when a driver is held, quit() ends the
\* browser session, an exception of quit() is swallowed, and the reference is
\* cleared.
CloseChromeDriver ==
  /\ driver' = FALSE
  /\ browser' = IF driver THEN FALSE ELSE browser

\* Lines 1246-1248: the finally clause; the call has ended.
Finally ==
  /\ pc = "finally"
  /\ prev' = [killed_after_save |-> FALSE, fresh |-> FALSE]
  /\ pc' = "done"
  /\ LoopReset
  /\ CallReset
  /\ CloseChromeDriver
  /\ UNCHANGED <<inputs, artv, store, run, save_seq, handled, loaded>>

\* The process is terminated: no clause runs, the files stay as they are.
Kill ==
  /\ pc \in {"issue_loop", "article_loop", "save_progress_file", "save_partial_file",
             "write_final", "except", "finally"}
  /\ prev' = [killed_after_save |-> hist.saves > 0 /\ ~InSave,
              fresh |-> run = 1 /\ resume_from = NoIssue /\ limit_issues = NoLimit]
  /\ pc' = "done"
  /\ LoopReset
  /\ CallReset
  /\ UNCHANGED <<inputs, chrome, artv, store, run, save_seq, handled, loaded>>

Next ==
  \/ \E r \in 0..(NumIssues + 1), l \in {NoLimit, 1} : StartRun(r, l)
  \/ NextIssue
  \/ ArticleSkipped
  \/ ArticleRecorded
  \/ ArticleRaises
  \/ EndIssue
  \/ SaveProgressFile
  \/ SaveProgressFileFails
  \/ SavePartialFile
  \/ SavePartialFileFails
  \/ WriteFinal
  \/ WriteFinalFails
  \/ ExceptHandler
  \/ Finally
  \/ Kill

Spec == Init /\ [][Next]_vars

(* ----------------- the checkpoint store on its own -------------------- *)
Chars == {CR, LF, CharX}
Texts == UNION {[1..n -> Chars] : n \in 0..MaxTextLen}
IssueLists == UNION {[1..n -> Issues] : n \in 0..NumIssues}

\* A direct call save_progress(u, d, c).
StoreSave(u, d, c) ==
  /\ pc = "store_idle"
  /\ save_seq < MaxSaves
  /\ BeginSave(u, d, c, "store")
  /\ loaded' = NoLoaded
  /\ UNCHANGED <<inputs, chrome, artv, store, run, params, loopv, exc, propagated,
                 save_seq, handled, start, produced, hist, prev>>

\* A direct call load_progress(); saved holds the arguments of the last
\* save_progress call when that call has completed.
StoreLoad ==
  /\ pc = "store_idle"
  /\ loaded' = [valid |-> ret = "saved", absent |-> progress_file.st = "absent",
                result |-> LoadProgress(progress_file, partial_file),
                saved |-> save_args]
  /\ UNCHANGED <<inputs, chrome, artv, store, run, pc, params, loopv, callv,
                 save_seq, handled, start, produced, hist, prev>>

StoreInit ==
  /\ narts = [i \in Issues |-> 0]
  /\ ok = [a \in AllArticles |-> FALSE]
  /\ save_interval = 1
  /\ limit_articles = NoLimit
  /\ platform \in {"posix", "windows"}
  /\ pc = "store_idle"
  /\ CommonInit

StoreNext ==
  \/ \E u \in Issues, d \in IssueLists, c \in Texts : StoreSave(u, d, c)
  \/ StoreLoad
  \/ SaveProgressFile
  \/ SaveProgressFileFails
  \/ SavePartialFile
  \/ SavePartialFileFails

SpecStore == StoreInit /\ [][StoreNext]_vars

(* -------------------- process_article, step by step ------------------- *)
\* Everything a step of process_article leaves alone.
outside == <<inputs, store, run, params, loopv, callv, ghost, acq, title_check, ext,
            direct>>

\* The article of the running loop iteration.
Art == ArticleDataList(IssueUrl)[article_idx + 1]

\* The locals of process_article are gone once it has returned.
ArticleReset ==
  /\ article_data' = NoArticle
  /\ pdf_file' = NoFile
  /\ requests' = {}
  /\ retry' = 0
  /\ slept' = <<>>
  /\ events' = <<>>
  /\ pdf_path' = FALSE
  /\ extracted' = ""
  /\ fail' = ""
  /\ returned' = ""

\* return None from process_article, at the named stage.
ReturnNone(stage) ==
  /\ fail' = stage
  /\ returned' = "none"
  /\ pc' = "pa_return"

\* Lines 1005-1008 with the browser strategy called whatever the first returned.
AfterRequestsAlways(path) == "download_pdf_using_selenium"

\* Lines 1005-1008: the browser strategy is called when the direct download
\* returned None.
AfterRequests(path) == IF path THEN "acquired" ELSE "download_pdf_using_selenium"

\* download_pdf_using_requests returns a path or None.
RequestsReturns(ev, path) ==
  /\ events' = Append(ev, IF path THEN "requests_ok" ELSE "requests_failed")
  /\ pdf_path' = path
  /\ pc' = AfterRequests(path)

\* download_pdf_using_selenium returns a path or None (line 1008; then 1010).
SeleniumReturns(ev, path) ==
  /\ events' = Append(ev, IF path THEN "selenium_ok" ELSE "selenium_failed")
  /\ pdf_path' = path
  /\ pc' = "acquired"

\* Lines 1185-1190: the loop calls process_article for the next article; the
\* article's record and the file a former run left for it are as they are.
BeginArticle ==
  /\ pc = "article_loop"
  /\ article_idx < Len(ArticleDataList(IssueUrl))
  /\ article_data' \in ArticleRecords
  /\ pdf_file' \in {NoFile} \cup Files
  /\ pc' = "should_process_article"
  /\ UNCHANGED <<requests, retry, slept, events, pdf_path, extracted, fail, returned,
                 chrome, outside>>

\* The title prefilter run after the article page has been requested.
TitlePrefilterAfterFetch ==
  /\ pc = "should_process_article"
  /\ requests' = requests \cup {"details"}
  /\ \E t \in Titles, d \in Langs \cup {DetectRaises} :
       /\ t.present = article_data.has_url
       /\ IF ShouldProcessArticle(t, d)
          THEN pc' = "get_article_details" /\ UNCHANGED <<fail, returned>>
          ELSE ReturnNone("title")
  /\ UNCHANGED <<article_data, pdf_file, retry, slept, events, pdf_path, extracted,
                 chrome, outside>>

\* Lines 987-990: the title prefilter.
TitlePrefilter ==
  /\ pc = "should_process_article"
  /\ \E t \in Titles, d \in Langs \cup {DetectRaises} :
       /\ t.present = article_data.has_url
       /\ IF ShouldProcessArticle(t, d)
          THEN pc' = "get_article_details" /\ UNCHANGED <<fail, returned>>
          ELSE ReturnNone("title")
  /\ UNCHANGED <<article_data, pdf_file, requests, retry, slept, events, pdf_path, extracted,
                 chrome, outside>>

\* Line 993, get_article_details (436-501): nothing is fetched when title,
\* authors and pages are there or when there is no article address; else the
\* article page is requested and may give the PDF address.
GetArticleDetails ==
  /\ pc = "get_article_details"
  /\ IF (article_data.has_url /\ article_data.has_meta) \/ ~article_data.has_url
     THEN UNCHANGED <<article_data, requests>>
     ELSE /\ requests' = requests \cup {"details"}
          /\ \E found \in BOOLEAN :
               article_data' = [article_data EXCEPT !.has_pdf_url = @ \/ found]
  /\ pc' = "check_pdf_url"
  /\ UNCHANGED <<pdf_file, retry, slept, events, pdf_path, extracted, fail, returned,
                 chrome, outside>>

\* Lines 995-1003: no PDF address, no record; else the direct download is called.
CheckPdfUrl ==
  /\ pc = "check_pdf_url"
  /\ IF ~article_data.has_pdf_url
     THEN ReturnNone("pdf_url") /\ UNCHANGED events
     ELSE /\ events' = Append(events, "requests")
          /\ pc' = "download_pdf_using_requests"
          /\ UNCHANGED <<fail, returned>>
  /\ UNCHANGED <<article_data, pdf_file, requests, retry, slept, pdf_path, extracted,
                 chrome, outside>>

(* -------------------- download_pdf_using_requests --------------------- *)
\* Lines 517-521: the file is already there and larger than the threshold; it
\* is returned and nothing is requested.
RequestsCached ==
  /\ pc = "download_pdf_using_requests"
  /\ AlreadyHave(pdf_file)
  /\ RequestsReturns(events, TRUE)
  /\ UNCHANGED <<article_data, pdf_file, requests, retry, slept, extracted, fail, returned,
                 chrome, outside>>

\* Lines 523-561: the landing page is requested and searched for the address
\* of the document; a failed request and a page without one both return None
\* (lines 554 and 604-606).
RequestsLanding ==
  /\ pc = "download_pdf_using_requests"
  /\ ~AlreadyHave(pdf_file)
  /\ requests' = requests \cup {"landing"}
  /\ \E found \in BOOLEAN :
       IF found
       THEN /\ pc' = "retry_loop"
            /\ retry' = 0
            /\ slept' = <<>>
            /\ UNCHANGED <<events, pdf_path>>
       ELSE /\ RequestsReturns(events, FALSE)
            /\ UNCHANGED <<retry, slept>>
  /\ UNCHANGED <<article_data, pdf_file, extracted, fail, returned, chrome, outside>>

\* The retry loop with the exception of the last attempt leaving
\* download_pdf_using_requests and process_article.
RetryAttemptFailsUncaught ==
  /\ pc = "retry_loop"
  /\ requests' = requests \cup {"pdf"}
  /\ IF LastAttempt(retry)
     THEN /\ events' = Append(events, "retries_exhausted")
          /\ exc' = "ArticleError"
          /\ hist' = [hist EXCEPT !.in_loop = TRUE]
          /\ pc' = "except"
          /\ UNCHANGED <<retry, slept>>
     ELSE /\ retry' = retry + 1
          /\ slept' = Append(slept, BackoffDelay(retry))
          /\ UNCHANGED <<pc, events, exc, hist>>
  /\ UNCHANGED <<article_data, pdf_file, pdf_path, extracted, fail, returned, chrome,
                 inputs, store, run, params, loopv, save_args, ret, propagated,
                 save_seq, handled, start, produced, prev, loaded, acq, title_check,
                 ext, direct>>

\* Lines 570-584 and 604-606: an attempt to fetch the document fails; it is
\* tried again unless it was the last attempt, whose exception is raised again,
\* caught at line 604 and turned into None.
RetryAttemptFails ==
  /\ pc = "retry_loop"
  /\ requests' = requests \cup {"pdf"}
  /\ IF LastAttempt(retry)
     THEN /\ RequestsReturns(Append(events, "retries_exhausted"), FALSE)
          /\ UNCHANGED <<retry, slept>>
     ELSE /\ retry' = retry + 1
          /\ slept' = Append(slept, BackoffDelay(retry))
          /\ UNCHANGED <<pc, events, pdf_path>>
  /\ UNCHANGED <<article_data, pdf_file, extracted, fail, returned, chrome, outside>>

\* Lines 572-574: an attempt succeeds and the loop is left.
RetryAttemptSucceeds ==
  /\ pc = "retry_loop"
  /\ requests' = requests \cup {"pdf"}
  /\ pc' = "save_pdf"
  /\ UNCHANGED <<article_data, pdf_file, retry, slept, events, pdf_path, extracted, fail,
                 returned, chrome, outside>>

\* Lines 586-606: the body is written to article_<id>.pdf and the file is
\* verified; None when writing raises (the file stays as far as it was
\* written) or the file is refused.
SavePdf ==
  /\ pc = "save_pdf"
  /\ \/ \E f \in Files :
          /\ pdf_file' = f
          /\ RequestsReturns(events, ValidPdf(f))
     \/ \E f \in PartialFiles :
          /\ pdf_file' = f
          /\ RequestsReturns(events, FALSE)
  /\ UNCHANGED <<article_data, requests, retry, slept, extracted, fail, returned, chrome,
                 outside>>

(* -------------------- download_pdf_using_selenium --------------------- *)
\* Lines 619-622: a browser is started unless the scraper holds one; None when
\* it cannot be started.
DownloadSelenium ==
  /\ pc = "download_pdf_using_selenium"
  /\ IF driver
     THEN /\ events' = Append(events, "selenium")
          /\ pc' = "selenium_get"
          /\ UNCHANGED <<chrome, pdf_path>>
     ELSE \E up \in BOOLEAN :
            IF up
            THEN /\ driver' = TRUE
                 /\ browser' = TRUE
                 /\ events' = Append(events, "selenium")
                 /\ pc' = "selenium_get"
                 /\ UNCHANGED pdf_path
            ELSE /\ SeleniumReturns(Append(events, "selenium"), FALSE)
                 /\ UNCHANGED chrome
  /\ UNCHANGED <<article_data, pdf_file, requests, retry, slept, extracted, fail, returned,
                 outside>>

\* Lines 624-710: the browser loads the landing page; the address of the viewer
\* frame or of a download link is fetched with the HTTP session and the body
\* is written to article_<id>.pdf, which is returned as it is; None when
\* nothing is found or a request raises.
SeleniumGet ==
  /\ pc = "selenium_get"
  /\ \E outcome \in {"nothing", "fetch_raises", "fetched"} :
       CASE outcome = "nothing" ->
              /\ requests' = requests \cup {"browser"}
              /\ SeleniumReturns(events, FALSE)
              /\ UNCHANGED pdf_file
         [] outcome = "fetch_raises" ->
              /\ requests' = requests \cup {"browser", "fetch"}
              /\ pdf_file' \in {pdf_file} \cup PartialFiles
              /\ SeleniumReturns(events, FALSE)
         [] outcome = "fetched" ->
              /\ requests' = requests \cup {"browser", "fetch"}
              /\ pdf_file' \in Files
              /\ SeleniumReturns(events, TRUE)
  /\ UNCHANGED <<article_data, retry, slept, extracted, fail, returned, chrome, outside>>

(* ------------------ the rest of process_article ----------------------- *)
\* Lines 1010-1015: no document, no record; else the text is extracted
\* (extract_text_from_pdf returns "" when it fails).
ExtractText ==
  /\ pc = "acquired"
  /\ IF ~pdf_path
     THEN ReturnNone("download") /\ UNCHANGED extracted
     ELSE /\ extracted' \in ExtractedTexts
          /\ pc' = "content_filter"
          /\ UNCHANGED <<fail, returned>>
  /\ UNCHANGED <<article_data, pdf_file, requests, retry, slept, events, pdf_path,
                 chrome, outside>>

\* The content filter dropping what it cannot classify.
ContentVerdictFailClosed(enough, raised, c) ==
  IF enough /\ ~raised /\ IsDesiredLanguage(c) THEN "record" ELSE "none"

\* Lines 1017-1056: a text long enough is classified; it is dropped when the
\* detector answers and the language is not a desired one.
ContentVerdict(enough, raised, c) ==
  IF ~enough THEN "record"
  ELSE IF raised THEN "record"
  ELSE IF IsDesiredLanguage(c) THEN "record" ELSE "none"

\* Lines 1017-1071: the content filter, then the record is formatted.
ContentFilter ==
  /\ pc = "content_filter"
  /\ \E raised \in BOOLEAN, c \in Contents :
       /\ events' = IF EnoughText(extracted) /\ raised
                    THEN Append(events, "detect_langs_raised") ELSE events
       /\ IF ContentVerdict(EnoughText(extracted), raised, c) = "none"
          THEN ReturnNone("content")
          ELSE /\ returned' = "record"
               /\ pc' = "pa_return"
               /\ UNCHANGED fail
  /\ UNCHANGED <<article_data, pdf_file, requests, retry, slept, pdf_path, extracted,
                 chrome, outside>>

\* Lines 1190-1216: process_article has returned to the article loop.
ProcessArticleReturns ==
  /\ pc = "pa_return"
  /\ IF returned = "none" THEN SkipArticle(Art) ELSE RecordArticle(Art)
  /\ ArticleReset
  /\ UNCHANGED <<chrome, acq, title_check, ext, direct>>

\* One call of scrape_and_process with process_article taken step by step.
ArticleSpecInit ==
  /\ narts \in [Issues -> 0..MaxArticles]
  /\ ok = [a \in AllArticles |-> FALSE]
  /\ save_interval \in 1..MaxInterval
  /\ limit_articles = NoLimit
  /\ platform = "posix"
  /\ pc = "idle"
  /\ CommonInit

ArticleNext ==
  \/ run = 0 /\ StartRun(NoIssue, NoLimit)
  \/ NextIssue
  \/ BeginArticle
  \/ TitlePrefilter
  \/ GetArticleDetails
  \/ CheckPdfUrl
  \/ RequestsCached
  \/ RequestsLanding
  \/ RetryAttemptFails
  \/ RetryAttemptSucceeds
  \/ SavePdf
  \/ DownloadSelenium
  \/ SeleniumGet
  \/ ExtractText
  \/ ContentFilter
  \/ ProcessArticleReturns
  \/ ArticleRaises
  \/ EndIssue
  \/ SaveProgressFile
  \/ SaveProgressFileFails
  \/ SavePartialFile
  \/ SavePartialFileFails
  \/ WriteFinal
  \/ WriteFinalFails
  \/ ExceptHandler
  \/ Finally

SpecArticle == ArticleSpecInit /\ [][ArticleNext]_vars

(* ------------- the two strategies called on one reference ------------- *)
MaxAcquires == 2    \* acquisitions of the same reference

\* Lines 1001-1003: the acquisition of a document begins with the direct
\* download, for the same pdf_url and article_id as before.
AcquireCall ==
  /\ pc = "acq_idle"
  /\ acq.calls < MaxAcquires
  /\ acq' = [acq EXCEPT !.calls = @ + 1]
  /\ requests' = {}
  /\ retry' = 0
  /\ slept' = <<>>
  /\ events' = <<"requests">>
  /\ pdf_path' = FALSE
  /\ pc' = "download_pdf_using_requests"
  /\ UNCHANGED <<inputs, store, run, params, loopv, callv, ghost, chrome, article_data,
                 pdf_file, extracted, fail, returned, title_check, ext, direct>>

\* Lines 1003-1010: the acquisition has ended with a path or with None.
AcquireReturns ==
  /\ pc = "acquired"
  /\ acq' = [calls |-> acq.calls, path |-> pdf_path, file |-> pdf_file,
             requests |-> requests,
             before |-> [path |-> acq.path, file |-> acq.file]]
  /\ pc' = "acq_idle"
  /\ UNCHANGED <<inputs, store, run, params, loopv, callv, ghost, chrome, article_data,
                 pdf_file, requests, retry, slept, events, pdf_path, extracted, fail, returned,
                 title_check, ext, direct>>

AcquireInit ==
  /\ narts = [i \in Issues |-> 0]
  /\ ok = [a \in AllArticles |-> FALSE]
  /\ save_interval = 1
  /\ limit_articles = NoLimit
  /\ platform = "posix"
  /\ pc = "acq_idle"
  /\ progress_file = NoProgressFile
  /\ partial_file = NoTextFile
  /\ final_file = NoTextFile
  /\ run = 0
  /\ resume_from = NoIssue
  /\ limit_issues = NoLimit
  /\ LoopInit
  /\ save_args = NoArgs
  /\ ret = ""
  /\ exc = ""
  /\ propagated = ""
  /\ save_seq = 0
  /\ handled = {}
  /\ start = NoStart
  /\ produced = <<>>
  /\ hist = NoHist
  /\ prev = NoPrev
  /\ loaded = NoLoaded
  /\ driver = FALSE
  /\ browser = FALSE
  /\ article_data = [has_url |-> TRUE, has_meta |-> TRUE, has_pdf_url |-> TRUE]
  /\ pdf_file \in {NoFile} \cup Files
  /\ requests = {}
  /\ retry = 0
  /\ slept = <<>>
  /\ events = <<>>
  /\ pdf_path = FALSE
  /\ extracted = ""
  /\ fail = ""
  /\ returned = ""
  /\ acq = NoAcq
  /\ title_check = NoTitleCheck
  /\ ext = NoExt
  /\ direct = NoDirect

AcquireNext ==
  \/ AcquireCall
  \/ RequestsCached
  \/ RequestsLanding
  \/ RetryAttemptFails
  \/ RetryAttemptSucceeds
  \/ SavePdf
  \/ DownloadSelenium
  \/ SeleniumGet
  \/ AcquireReturns

SpecAcquire == AcquireInit /\ [][AcquireNext]_vars

\* The acquisition with the thread kept running: requests.get is called with a
\* timeout and time.sleep returns, so a step that can be taken is taken.
SpecAcquireFair == SpecAcquire /\ WF_vars(AcquireNext)

(* ---------------- the title prefilter on its own ----------------------- *)
\* A call should_process_article(article_data): detect is called when the
\* title is not empty.
CheckTitle(t, d) ==
  /\ pc = "title_idle"
  /\ (d = NotCalled) = (TitleOf(t) = <<>>)
  /\ title_check' = [done |-> TRUE, title |-> t, detected |-> d,
                     verdict |-> ShouldProcessArticle(t, d)]
  /\ UNCHANGED <<inputs, store, run, pc, params, loopv, callv, ghost, chrome,
                 article_data, pdf_file, requests, retry, slept, events, pdf_path, extracted,
                 fail, returned, acq, ext, direct>>

TitleInit ==
  /\ narts = [i \in Issues |-> 0]
  /\ ok = [a \in AllArticles |-> FALSE]
  /\ save_interval = 1
  /\ limit_articles = NoLimit
  /\ platform = "posix"
  /\ pc = "title_idle"
  /\ CommonInit

TitleNext == \E t \in Titles, d \in Langs \cup {DetectRaises, NotCalled} : CheckTitle(t, d)

SpecTitle == TitleInit /\ [][TitleNext]_vars

(* --------------- extract_text_from_pdf, step by step ------------------- *)
\* Everything a step of extract_text_from_pdf leaves alone.
extrest == <<inputs, store, run, params, loopv, callv, ghost, chrome, article_data,
             pdf_file, requests, retry, slept, events, pdf_path, extracted, fail,
             returned, acq, title_check, direct>>

\* The call is over with the string t returned.
ExtractReturn(t) ==
  /\ pc' = "extract_returned"
  /\ ext' = [ext EXCEPT !.done = TRUE, !.result = t]

\* The call is over with an exception raised to the caller.
ExtractRaise ==
  /\ pc' = "extract_returned"
  /\ ext' = [ext EXCEPT !.done = TRUE, !.raised = TRUE]

\* Lines 722-726: no path or no such file returns ""; else text = "".
ExtractCall ==
  /\ pc = "extract_call"
  /\ IF ~ext.doc.path
     THEN ExtractReturn(<<>>)
     ELSE pc' = "extract_open" /\ ext' = [ext EXCEPT !.text = <<>>]
  /\ UNCHANGED extrest

\* A failure opening or reading the document leaving the function.
OpenReaderUncaught ==
  /\ pc = "extract_open"
  /\ IF ~ext.doc.opens
     THEN ExtractRaise
     ELSE /\ pc' = (IF Len(ext.doc.pages) = 0 THEN "extract_ocr_check" ELSE "extract_page")
          /\ ext' = [ext EXCEPT !.page_num = 0]
  /\ UNCHANGED extrest

\* Lines 733-738 and 747-748: the file is opened and its pages are counted;
\* an exception here is caught at line 747 and the primary extraction is over.
OpenReader ==
  /\ pc = "extract_open"
  /\ IF ~ext.doc.opens
     THEN pc' = "extract_ocr_check" /\ UNCHANGED ext
     ELSE /\ pc' = (IF Len(ext.doc.pages) = 0 THEN "extract_ocr_check" ELSE "extract_page")
          /\ ext' = [ext EXCEPT !.page_num = 0]
  /\ UNCHANGED extrest

\* A failing page ending the primary extraction (caught at line 747).
ExtractPageAborts ==
  /\ pc = "extract_page"
  /\ LET j == ext.page_num + 1
         o == ext.doc.pages[j]
         page_text == PageText(j, o)
     IN IF o = "raise"
        THEN pc' = "extract_ocr_check" /\ UNCHANGED ext
        ELSE /\ ext' = [ext EXCEPT !.page_num = j,
                          !.text = IF page_text # <<>> THEN @ \o page_text \o <<LF>> ELSE @]
             /\ pc' = (IF j = Len(ext.doc.pages) THEN "extract_ocr_check" ELSE "extract_page")
  /\ UNCHANGED extrest

\* Lines 738-746: one page of the loop; a non-empty page_text is appended with
\* "\n", an exception is caught at line 745 and the loop goes on.
ExtractPage ==
  /\ pc = "extract_page"
  /\ LET j == ext.page_num + 1
         o == ext.doc.pages[j]
         page_text == PageText(j, o)
     IN /\ ext' = [ext EXCEPT !.page_num = j,
                     !.text = IF o # "raise" /\ page_text # <<>>
                              THEN @ \o page_text \o <<LF>> ELSE @]
        /\ pc' = (IF j = Len(ext.doc.pages) THEN "extract_ocr_check" ELSE "extract_page")
  /\ UNCHANGED extrest

\* The OCR pass run whenever the module has it.
OcrCheckAlways ==
  /\ pc = "extract_ocr_check"
  /\ ext' = [ext EXCEPT !.primary = ext.text]
  /\ pc' = (IF ext.doc.ocr_available THEN "extract_ocr" ELSE "extract_return")
  /\ UNCHANGED extrest

\* Line 751: if not text.strip() and ocr_available.
OcrCheck ==
  /\ pc = "extract_ocr_check"
  /\ ext' = [ext EXCEPT !.primary = ext.text]
  /\ pc' = (IF Blank(ext.text) /\ ext.doc.ocr_available
            THEN "extract_ocr" ELSE "extract_return")
  /\ UNCHANGED extrest

\* Lines 753-770: the OCR pass; its text replaces text when it is not blank,
\* an exception is caught at line 769 and leaves text as it was.
Ocr ==
  /\ pc = "extract_ocr"
  /\ LET ocr_text == OcrText(ext.doc.ocr)
     IN ext' = [ext EXCEPT !.ocr_ran = TRUE,
                  !.text = IF ext.doc.ocr # "raise" /\ ~Blank(ocr_text)
                           THEN ocr_text ELSE @]
  /\ pc' = "extract_return"
  /\ UNCHANGED extrest

\* Lines 775-778: return text.
ExtractReturns ==
  /\ pc = "extract_return"
  /\ ExtractReturn(ext.text)
  /\ UNCHANGED extrest

\* A call of extract_text_from_pdf for any document.
ExtractInit ==
  /\ QuietInit
  /\ pc = "extract_call"
  /\ direct = NoDirect
  /\ \E d \in Docs : ext = [NoExt EXCEPT !.doc = d]

ExtractNext ==
  \/ ExtractCall
  \/ OpenReader
  \/ ExtractPage
  \/ OcrCheck
  \/ Ocr
  \/ ExtractReturns

SpecExtract == ExtractInit /\ [][ExtractNext]_vars

(* --------------------------- _clean_text ------------------------------- *)
Digit1 == 49     \* "1"
LBracket == 91   \* "["
RBracket == 93   \* "]"
CharEAcute == 233 \* a character outside ASCII

MaxCleanLen == 4 \* characters of a text given to _clean_text
MaxCleans == 2   \* successive calls of _clean_text

\* The characters of the texts: line feed, space, a digit, a letter, the
\* brackets and a character outside ASCII. The substitutions of _clean_text
\* that are not modelled match nothing in the texts the model cleans: each
\* needs "_", ".", "(" or the letter "V" (lines 839, 854-855, 860-862).
CleanChars == {LF, SP, Digit1, CharA, LBracket, RBracket, CharEAcute}
CleanTexts == UNION {[1..n -> CleanChars] : n \in 0..MaxCleanLen}

\* \s and \d of the regular expressions, among the characters above.
Whitespace == {LF, SP}
Digits == {Digit1}

\* The first position from p on whose character is not in S (Len(t) + 1 when
\* there is none): where a greedy S* that starts at p stops.
RunEnd(t, p, S) ==
  CHOOSE q \in p..(Len(t) + 1) :
    /\ \A k \in p..(q - 1) : t[k] \in S
    /\ q = Len(t) + 1 \/ t[q] \notin S

\* ^ under re.MULTILINE: the start of the text or just after a line feed.
LineStart(t, p) == p = 1 \/ t[p - 1] = LF

\* Where a match of ^\s*\d+\s*$ (re.MULTILINE) that starts at p ends (the
\* position after its last character), 0 when there is none: white space,
\* digits, then the longest white space after which the text ends or a line
\* feed follows.
PageNumberEnd(t, p) ==
  LET q == RunEnd(t, p, Whitespace)
      r == RunEnd(t, q, Digits)
      s == RunEnd(t, r, Whitespace)
      feeds == {k \in r..(s - 1) : t[k] = LF}
  IN IF ~LineStart(t, p) \/ r = q THEN 0
     ELSE IF s = Len(t) + 1 THEN s
     ELSE IF feeds # {} THEN CHOOSE k \in feeds : \A m \in feeds : m <= k
     ELSE 0

\* The first position from p on that holds a line feed (Len(t) + 1 when there
\* is none): where a greedy .* that starts at p stops.
LineEnd(t, p) ==
  CHOOSE q \in p..(Len(t) + 1) :
    /\ \A k \in p..(q - 1) : t[k] # LF
    /\ q = Len(t) + 1 \/ t[q] = LF

\* Where a match of ^\s*\d+(\.\d+)*\s+.*$ (re.MULTILINE) that starts at p
\* ends, 0 when there is none: white space, digits, at least one white space
\* character, then the rest of the line.
HeadingEnd(t, p) ==
  LET q == RunEnd(t, p, Whitespace)
      r == RunEnd(t, q, Digits)
      s == RunEnd(t, r, Whitespace)
  IN IF ~LineStart(t, p) \/ r = q \/ s = r THEN 0
     ELSE LineEnd(t, s)

\* Where a match of \[\d+\] that starts at p ends, 0 when there is none.
BracketEnd(t, p) ==
  LET r == RunEnd(t, p + 1, Digits)
  IN IF t[p] = LBracket /\ r > p + 1 /\ r <= Len(t) /\ t[r] = RBracket
     THEN r + 1 ELSE 0

\* Line 840: re.sub(r'^\s*\d+\s*$', '', text, flags=re.MULTILINE), the text
\* scanned from p on: a match is dropped and the scan goes on after it.
RECURSIVE RemovePageNumbers(_, _)
RemovePageNumbers(t, p) ==
  IF p > Len(t) THEN <<>>
  ELSE IF PageNumberEnd(t, p) # 0 THEN RemovePageNumbers(t, PageNumberEnd(t, p))
  ELSE <<t[p]>> \o RemovePageNumbers(t, p + 1)

\* Line 853: re.sub(r'^\s*\d+(\.\d+)*\s+.*$', '', text, flags=re.MULTILINE).
RECURSIVE RemoveHeadings(_, _)
RemoveHeadings(t, p) ==
  IF p > Len(t) THEN <<>>
  ELSE IF HeadingEnd(t, p) # 0 THEN RemoveHeadings(t, HeadingEnd(t, p))
  ELSE <<t[p]>> \o RemoveHeadings(t, p + 1)

\* Line 859: re.sub(r'\[\d+\]', '', text).
RECURSIVE RemoveBracketRefs(_, _)
RemoveBracketRefs(t, p) ==
  IF p > Len(t) THEN <<>>
  ELSE IF BracketEnd(t, p) # 0 THEN RemoveBracketRefs(t, BracketEnd(t, p))
  ELSE <<t[p]>> \o RemoveBracketRefs(t, p + 1)

\* "<***>"
SentinelText == <<60, 42, 42, 42, 62>>

\* "UDK", "DOI:" and "Ključne riječi:" (lines 841-843).
UdkMarker == <<85, 68, 75>>
DoiMarker == <<68, 79, 73, 58>>
KeywordMarker ==
  <<75, 108, 106, 117, 269, 110, 101, 32, 114, 105, 106, 101, 269, 105, 58>>

\* The section headers of lines 847-849 and 866-867, as the code writes them.
SectionHeader(name) ==
  CASE name = "Literatura" -> <<76, 105, 116, 101, 114, 97, 116, 117, 114, 97>>
    [] name = "References" -> <<82, 101, 102, 101, 114, 101, 110, 99, 101, 115>>
    [] name = "Bibliography" -> <<66, 105, 98, 108, 105, 111, 103, 114, 97, 112, 104, 121>>
    [] name = "Summary" -> <<83, 117, 109, 109, 97, 114, 121>>
    [] name = "Abstract" -> <<65, 98, 115, 116, 114, 97, 99, 116>>

\* The characters of w stand in t from position p on.
StartsAt(t, p, w) == p + Len(w) - 1 <= Len(t) /\ SubSeq(t, p, p + Len(w) - 1) = w

\* Lines 841-842: re.sub(r'^.*UDK.*$', '', text, flags=re.MULTILINE) and the
\* same for "DOI:", the text scanned from p on: a line that holds the marker
\* loses all its characters, its line feed stays.
RECURSIVE RemoveMarkedLines(_, _, _)
RemoveMarkedLines(t, p, marker) ==
  IF p > Len(t) THEN <<>>
  ELSE IF /\ LineStart(t, p)
          /\ \E k \in p..(LineEnd(t, p) - Len(marker)) : StartsAt(t, k, marker)
       THEN RemoveMarkedLines(t, LineEnd(t, p), marker)
       ELSE <<t[p]>> \o RemoveMarkedLines(t, p + 1, marker)

\* Line 843: re.sub(r'Ključne riječi:.*$', '', text, flags=re.MULTILINE): the
\* marker and the rest of its line are dropped.
RECURSIVE RemoveKeywordLists(_, _)
RemoveKeywordLists(t, p) ==
  IF p > Len(t) THEN <<>>
  ELSE IF StartsAt(t, p, KeywordMarker) THEN RemoveKeywordLists(t, LineEnd(t, p))
  ELSE <<t[p]>> \o RemoveKeywordLists(t, p + 1)

\* Where a match of header\s*\n.*?(?=<\*\*\*>|$) (re.DOTALL) that starts at
\* p ends, 0 when there is none: the header, white space up to its last line
\* feed, then as little as possible up to the sentinel or to where $ matches,
\* which without re.MULTILINE is the end of the text or just before a line
\* feed that ends the text.
SectionEnd(t, p, header) ==
  LET h == p + Len(header)
      w == RunEnd(t, h, Whitespace)
      feeds == {k \in h..(w - 1) : t[k] = LF}
      b == (CHOOSE k \in feeds : \A m \in feeds : m <= k) + 1
  IN IF ~StartsAt(t, p, header) THEN 0
     ELSE IF feeds = {} THEN 0
     ELSE CHOOSE e \in b..(Len(t) + 1) :
            /\ \/ StartsAt(t, e, SentinelText)
               \/ e = Len(t) + 1
               \/ e = Len(t) /\ t[e] = LF
            /\ \A d \in b..(e - 1) :
                 ~(StartsAt(t, d, SentinelText) \/ (d = Len(t) /\ t[d] = LF))

\* Lines 847-849 and 866-867: re.sub(header + r'\s*\n.*?(?=<\*\*\*>|$)', '',
\* text, flags=re.DOTALL), the text scanned from p on.
RECURSIVE RemoveSections(_, _, _)
RemoveSections(t, p, header) ==
  IF p > Len(t) THEN <<>>
  ELSE IF SectionEnd(t, p, header) # 0
       THEN RemoveSections(t, SectionEnd(t, p, header), header)
       ELSE <<t[p]>> \o RemoveSections(t, p + 1, header)

\* Line 871: re.sub(r'[^\x00-\x7F]', ' ', text).
ReplaceNonAscii(t) == [k \in 1..Len(t) |-> IF t[k] > 127 THEN SP ELSE t[k]]

\* Line 875: text.split('\n\n'), the text scanned from p on with cur the
\* paragraph collected so far.
RECURSIVE SplitParagraphs(_, _, _)
SplitParagraphs(t, p, cur) ==
  IF p > Len(t) THEN <<cur>>
  ELSE IF p < Len(t) /\ t[p] = LF /\ t[p + 1] = LF
       THEN <<cur>> \o SplitParagraphs(t, p + 2, <<>>)
       ELSE SplitParagraphs(t, p + 1, Append(cur, t[p]))

\* Line 879: ' '.join(paragraph.split('\n')).
JoinLines(paragraph) ==
  [k \in 1..Len(paragraph) |-> IF paragraph[k] = LF THEN SP ELSE paragraph[k]]

\* Line 883: '\n\n'.join(processed_paragraphs), from paragraph k on.
RECURSIVE JoinParagraphs(_, _)
JoinParagraphs(paragraphs, k) ==
  IF k > Len(paragraphs) THEN <<>>
  ELSE IF k = Len(paragraphs) THEN paragraphs[k]
  ELSE paragraphs[k] \o <<LF, LF>> \o JoinParagraphs(paragraphs, k + 1)

\* Lines 874-883: the line feeds inside a paragraph become spaces.
FixParagraphs(t) ==
  LET paragraphs == SplitParagraphs(t, 1, <<>>)
      processed_paragraphs == [k \in 1..Len(paragraphs) |-> JoinLines(paragraphs[k])]
  IN JoinParagraphs(processed_paragraphs, 1)

\* Lines 824-891: _clean_text, its substitutions in the order of the code.
CleanText(t) ==
  IF t = <<>> THEN <<>>
  ELSE LET page_numbers == RemovePageNumbers(t, 1)
           udk == RemoveMarkedLines(page_numbers, 1, UdkMarker)
           doi == RemoveMarkedLines(udk, 1, DoiMarker)
           keywords == RemoveKeywordLists(doi, 1)
           literatura == RemoveSections(keywords, 1, SectionHeader("Literatura"))
           references == RemoveSections(literatura, 1, SectionHeader("References"))
           bibliography == RemoveSections(references, 1, SectionHeader("Bibliography"))
           headings == RemoveHeadings(bibliography, 1)
           brackets == RemoveBracketRefs(headings, 1)
           summary == RemoveSections(brackets, 1, SectionHeader("Summary"))
           abstract == RemoveSections(summary, 1, SectionHeader("Abstract"))
       IN FixParagraphs(ReplaceNonAscii(abstract))

\* Everything a call of a pure function leaves alone.
purerest == <<inputs, store, run, pc, params, loopv, callv, ghost, chrome, article_data,
              pdf_file, requests, retry, slept, events, pdf_path, extracted, fail,
              returned, acq, title_check, ext>>

\* _clean_text is called on the text, or on what its last call returned.
CleanCall ==
  /\ pc = "clean_idle"
  /\ Len(direct.outs) < MaxCleans
  /\ direct' = [direct EXCEPT !.outs =
                  Append(@, CleanText(IF @ = <<>> THEN direct.text ELSE @[Len(@)]))]
  /\ UNCHANGED purerest

CleanInit ==
  /\ QuietInit
  /\ pc = "clean_idle"
  /\ ext = NoExt
  /\ \E t \in CleanTexts : direct = [text |-> t, outs |-> <<>>]

CleanNext == CleanCall

SpecClean == CleanInit /\ [][CleanNext]_vars

(* ------------- _clean_text on texts with markers and headers ----------- *)
MaxMarkedParts == 4  \* pieces of a text with markers or section headers

SectionNames == {"Literatura", "References", "Bibliography", "Summary", "Abstract"}

\* The texts of at most n pieces.
RECURSIVE Concats(_, _)
Concats(pieces, n) ==
  IF n = 0 THEN {<<>>}
  ELSE Concats(pieces, n - 1) \cup {b \o piece : b \in Concats(pieces, n - 1), piece \in pieces}

\* Texts put together from section headers, line feeds, a letter and the
\* sentinel, and texts put together from the three line markers, line feeds and
\* a letter.
SectionPieces == {SectionHeader(name) : name \in SectionNames}
                   \cup {<<LF>>, <<CharA>>, SentinelText}
MarkerPieces == {UdkMarker, DoiMarker, KeywordMarker, <<LF>>, <<CharA>>}
MarkedTexts == Concats(SectionPieces, MaxMarkedParts) \cup Concats(MarkerPieces, MaxMarkedParts)

\* One of the substitutions of lines 847-849 and 866-867 on its own.
SectionPass(name) ==
  /\ pc = "marked_idle"
  /\ direct.pass = "none"
  /\ direct' = [direct EXCEPT !.pass = name,
                              !.out = RemoveSections(direct.text, 1, SectionHeader(name))]
  /\ UNCHANGED purerest

\* _clean_text on the text.
CleanMarked ==
  /\ pc = "marked_idle"
  /\ direct.pass = "none"
  /\ direct' = [direct EXCEPT !.pass = "clean", !.out = CleanText(direct.text)]
  /\ UNCHANGED purerest

MarkedInit ==
  /\ QuietInit
  /\ pc = "marked_idle"
  /\ ext = NoExt
  /\ \E t \in MarkedTexts : direct = [text |-> t, pass |-> "none", out |-> <<>>]

MarkedNext ==
  \/ \E name \in SectionNames : SectionPass(name)
  \/ CleanMarked

SpecMarked == MarkedInit /\ [][MarkedNext]_vars

(* ---------------------- _process_extracted_text ------------------------ *)
CyrillicSmallA == 1072   \* U+0430

MaxBodyParts == 2  \* pieces of an extracted text
MaxRecords == 2    \* records of a corpus

\* The keys of the metadata dictionary, in the order of lines 1059-1068.
FieldNames == <<"NOVINA", "DATUM", "RUBRIKA", "NADNASLOV", "NASLOV", "PODNASLOV",
                "STRANA", "AUTOR(I)">>

\* The text of a field before its value: the name, a colon and a space.
Label(field) ==
  CASE field = "NOVINA" -> <<78, 79, 86, 73, 78, 65, 58, 32>>
    [] field = "DATUM" -> <<68, 65, 84, 85, 77, 58, 32>>
    [] field = "RUBRIKA" -> <<82, 85, 66, 82, 73, 75, 65, 58, 32>>
    [] field = "NADNASLOV" -> <<78, 65, 68, 78, 65, 83, 76, 79, 86, 58, 32>>
    [] field = "NASLOV" -> <<78, 65, 83, 76, 79, 86, 58, 32>>
    [] field = "PODNASLOV" -> <<80, 79, 68, 78, 65, 83, 76, 79, 86, 58, 32>>
    [] field = "STRANA" -> <<83, 84, 82, 65, 78, 65, 58, 32>>
    [] field = "AUTOR(I)" -> <<65, 85, 84, 79, 82, 40, 73, 41, 58, 32>>

\* Metadata values: empty, a letter, or the text of the sentinel.
MetaValues == {<<>>, <<CharA>>, SentinelText}

\* The metadata dictionaries given to the formatter: the title is a letter or
\* the text of the sentinel, the authors are missing or a letter, every other
\* field is a letter.
Metadatas ==
  {m \in [{FieldNames[k] : k \in 1..Len(FieldNames)} -> MetaValues] :
     /\ m["NASLOV"] # <<>>
     /\ m["AUTOR(I)"] # SentinelText
     /\ \A k \in 1..Len(FieldNames) :
          FieldNames[k] \notin {"NASLOV", "AUTOR(I)"} => m[FieldNames[k]] = <<CharA>>}

\* The extracted texts given to the formatter: up to MaxBodyParts pieces, each
\* a letter, a line feed, the text of the sentinel or a Cyrillic letter.
BodyPieces == {<<CharA>>, <<LF>>, SentinelText, <<CyrillicSmallA>>}
RECURSIVE BodyTexts(_)
BodyTexts(n) ==
  IF n = 0 THEN {<<>>}
  ELSE BodyTexts(n - 1) \cup {b \o piece : b \in BodyTexts(n - 1), piece \in BodyPieces}

\* cyrtranslit.to_latin on one character.
ToLatin(ch) == IF ch = CyrillicSmallA THEN CharA ELSE ch

\* Lines 799-822: _convert_cyrillic_to_latin; the text is returned as it is
\* when cyrtranslit is not installed (cyrillic_converter is False).
ConvertCyrillicToLatin(t, cyrillic_converter) ==
  IF t = <<>> \/ ~cyrillic_converter THEN t
  ELSE [k \in 1..Len(t) |-> ToLatin(t[k])]

\* Lines 906-914: the header of a record without text.
EmptyHeader(metadata) ==
  SentinelText \o <<LF>>
  \o Label("NOVINA") \o metadata["NOVINA"] \o <<LF>>
  \o Label("DATUM") \o metadata["DATUM"] \o <<LF>>
  \o Label("RUBRIKA") \o metadata["RUBRIKA"] \o <<LF>>
  \o Label("NADNASLOV") \o metadata["NADNASLOV"] \o <<LF>>
  \o Label("NASLOV") \o metadata["NASLOV"] \o <<LF>>
  \o Label("PODNASLOV") \o metadata["PODNASLOV"] \o <<LF>>
  \o Label("STRANA") \o metadata["STRANA"] \o <<LF>>
  \o Label("AUTOR(I)") \o metadata["AUTOR(I)"] \o <<LF>>

\* A header with the title before the line above it.
TextHeaderReordered(metadata) ==
  SentinelText \o <<LF>>
  \o Label("NOVINA") \o metadata["NOVINA"] \o <<LF>>
  \o Label("DATUM") \o metadata["DATUM"] \o <<LF>>
  \o Label("RUBRIKA") \o metadata["RUBRIKA"] \o <<LF>>
  \o Label("NASLOV") \o metadata["NASLOV"] \o <<LF>>
  \o Label("NADNASLOV") \o metadata["NADNASLOV"] \o <<LF>>
  \o Label("PODNASLOV") \o metadata["PODNASLOV"] \o <<LF>>
  \o Label("STRANA") \o metadata["STRANA"] \o <<LF>>
  \o Label("AUTOR(I)") \o metadata["AUTOR(I)"] \o <<LF>>

\* Lines 926-934: the header of a record with text.
TextHeader(metadata) ==
  SentinelText \o <<LF>>
  \o Label("NOVINA") \o metadata["NOVINA"] \o <<LF>>
  \o Label("DATUM") \o metadata["DATUM"] \o <<LF>>
  \o Label("RUBRIKA") \o metadata["RUBRIKA"] \o <<LF>>
  \o Label("NADNASLOV") \o metadata["NADNASLOV"] \o <<LF>>
  \o Label("NASLOV") \o metadata["NASLOV"] \o <<LF>>
  \o Label("PODNASLOV") \o metadata["PODNASLOV"] \o <<LF>>
  \o Label("STRANA") \o metadata["STRANA"] \o <<LF>>
  \o Label("AUTOR(I)") \o metadata["AUTOR(I)"] \o <<LF>>

\* Lines 893-938: _process_extracted_text.
ProcessExtractedText(t, metadata, cyrillic_converter) ==
  IF t = <<>>
  THEN EmptyHeader(metadata) \o <<LF, LF>>
  ELSE LET converted == IF ContainsCyrillic(t)
                        THEN ConvertCyrillicToLatin(t, cyrillic_converter) ELSE t
           cleaned_text == CleanText(converted)
       IN TextHeader(metadata) \o cleaned_text \o <<LF, LF>>

\* Lines 1058-1071 and 1197-1198: a record is formatted and added to the corpus.
FormatRecord(t, metadata, cyrillic_converter) ==
  /\ pc = "format_idle"
  /\ Len(direct.calls) < MaxRecords
  /\ LET formatted_text == ProcessExtractedText(t, metadata, cyrillic_converter)
     IN direct' = [calls |-> Append(direct.calls,
                                    [text |-> t, metadata |-> metadata,
                                     record |-> formatted_text]),
                   corpus |-> direct.corpus \o formatted_text]
  /\ UNCHANGED purerest

FormatInit ==
  /\ QuietInit
  /\ pc = "format_idle"
  /\ ext = NoExt
  /\ direct = [calls |-> <<>>, corpus |-> <<>>]

FormatNext ==
  \E t \in BodyTexts(MaxBodyParts), metadata \in Metadatas, cyrillic_converter \in BOOLEAN :
    FormatRecord(t, metadata, cyrillic_converter)

SpecFormat == FormatInit /\ [][FormatNext]_vars

(* ------------------- the content filter on its own --------------------- *)
\* Lines 1017-1056 for one text: whether it is long enough, whether
\* detect_langs raises, and what the detector and the text give.
CheckContent(enough, raised, c) ==
  /\ pc = "content_idle"
  /\ direct' = [done |-> TRUE, enough |-> enough, raised |-> raised, content |-> c,
                verdict |-> ContentVerdict(enough, raised, c)]
  /\ UNCHANGED purerest

ContentInit ==
  /\ QuietInit
  /\ pc = "content_idle"
  /\ ext = NoExt
  /\ direct = NoDirect

ContentNext == \E enough \in BOOLEAN, raised \in BOOLEAN, c \in Contents :
                 CheckContent(enough, raised, c)

SpecContent == ContentInit /\ [][ContentNext]_vars

(* ------------- the cache file names of several articles --------------- *)
MaxCacheArticles == 2  \* articles whose documents are acquired
MaxFallbackIds == 2    \* numbers the fallback identifier is drawn from
MaxNameCalls == 3      \* calls of process_article that reach the download

\* Line 1002: random.randint(1000, 9999)
FallbackLow == 1000
FallbackHigh == 9999

CacheArticles == 1..MaxCacheArticles

\* The numbers random.randint gives, cut to the first MaxFallbackIds.
FallbackIds ==
  {r \in FallbackLow..FallbackHigh : r < FallbackLow + MaxFallbackIds}

\* Lines 358-361 and 1002: the article_id is the number of the article's
\* address (different articles have different numbers), or unknown_<r> with
\* a random r when the record has none.
ArticleIds(a, has_id) ==
  IF has_id
  THEN {[fallback |-> FALSE, n |-> ArticleId(1, a)]}
  ELSE {[fallback |-> TRUE, n |-> r] : r \in FallbackIds}

\* Line 518: article_<article_id>.pdf, one name for one article_id.
CacheNames ==
  UNION {ArticleIds(a, b) : a \in CacheArticles, b \in BOOLEAN}

\* A file of pdf_dir and the article whose download wrote it.
NoCached == [exists |-> FALSE, size |-> 0, owner |-> 0]
Stored(f, a) == [exists |-> TRUE, size |-> f.size, owner |-> a]

NoLast == [article |-> 0, cached |-> FALSE, path |-> FALSE, owner |-> 0]

\* Lines 1001-1010 for the article a: the identifier is taken from the record
\* or drawn; a file of that name larger than the threshold is returned as it
\* is (lines 517-521); else the strategies download, and write the file of
\* that name or leave it, and return it or None.
AcquireFor(a) ==
  /\ pc = "names_idle"
  /\ direct.calls < MaxNameCalls
  /\ \E id \in ArticleIds(a, direct.has_id[a]) :
       IF AlreadyHave(direct.dir[id])
       THEN direct' = [direct EXCEPT
                         !.calls = @ + 1,
                         !.last = [article |-> a, cached |-> TRUE, path |-> TRUE,
                                   owner |-> direct.dir[id].owner]]
       ELSE \/ direct' = [direct EXCEPT
                            !.calls = @ + 1,
                            !.last = [article |-> a, cached |-> FALSE,
                                      path |-> FALSE, owner |-> 0]]
            \/ \E f \in Files :
                 direct' = [direct EXCEPT
                              !.calls = @ + 1,
                              !.dir[id] = Stored(f, a),
                              !.last = [article |-> a, cached |-> FALSE,
                                        path |-> TRUE, owner |-> a]]
            \/ \E f \in PartialFiles \cup {g \in Files : ~ValidPdf(g)} :
                 direct' = [direct EXCEPT
                              !.calls = @ + 1,
                              !.dir[id] = Stored(f, a),
                              !.last = [article |-> a, cached |-> FALSE,
                                        path |-> FALSE, owner |-> 0]]
  /\ UNCHANGED purerest

NamesInit ==
  /\ QuietInit
  /\ pc = "names_idle"
  /\ ext = NoExt
  /\ \E h \in [CacheArticles -> BOOLEAN] :
       direct = [has_id |-> h, dir |-> [n \in CacheNames |-> NoCached],
                 calls |-> 0, last |-> NoLast]

NamesNext == \E a \in CacheArticles : AcquireFor(a)

SpecNames == NamesInit /\ [][NamesNext]_vars

(* ------------------------- properties --------------------------------- *)
Active == pc \in {"issue_loop", "article_loop", "save_progress_file",
                  "save_partial_file", "write_final", "except", "finally"}

\* The call is about to return normally, the final corpus file written.
Returning == pc = "finally" /\ propagated = "" /\ hist.final_written

\* The snapshot file holds the complete text of a save of the running call.
SnapshotOfThisCall == partial_file.whole /\ partial_file.stamp > start.seq

Count(s, x) == Cardinality({j \in 1..Len(s) : s[j] = x})
SameRecords(s, t) == \A x \in Range(s) \cup Range(t) : Count(s, x) = Count(t, x)
NoDuplicates(s) == \A x \in Range(s) : Count(s, x) = 1

\* The corpus of one uninterrupted call over the discovered issues: the records
\* of the accepted articles, issue by issue in list order.
RECURSIVE RecordsOf(_, _)
RecordsOf(list, k) ==
  IF k > Len(list) THEN <<>>
  ELSE (IF ok[list[k]] THEN ProcessArticle(list[k]) ELSE <<>>) \o RecordsOf(list, k + 1)
RECURSIVE CorpusOf(_, _)
CorpusOf(links, j) ==
  IF j > Len(links) THEN <<>>
  ELSE RecordsOf(ArticleDataList(links[j]), 1) \o CorpusOf(links, j + 1)
UninterruptedCorpus == CorpusOf(Discovered, 1)

\* C1: a first call without resume or limit is terminated after a completed
\* checkpoint save; a second call that resumes from that checkpoint (resume_from
\* names the checkpoint's current issue, or an address that is not in the list,
\* so that the done-set decides) and returns normally writes a final corpus with
\* the same records as one uninterrupted call, none missing and none twice.
C1_ResumeEquivalence ==
  (run = 2 /\ Returning /\ prev.fresh /\ prev.killed_after_save /\ start.ckpt
     /\ resume_from # NoIssue /\ limit_issues = NoLimit
     /\ (resume_from = start.cur \/ resume_from \notin Range(Discovered)))
  => SameRecords(final_file.text, UninterruptedCorpus)

\* C2: in every state the progress document and the corpus snapshot on disk
\* were written by the same save_progress call.
C2_SameSave == progress_file.stamp = partial_file.stamp

\* C3: every issue in the processed_issues list of the persisted progress
\* document has had all its articles handled (recorded or skipped).
C3_DoneIssuesComplete ==
  progress_file.st = "ok"
  => \A i \in Range(progress_file.processed_issues) :
       Range(ArticleDataList(i)) \subseteq handled

C5_NoReprocessing ==
  (Returning /\ resume_from # NoIssue)
  => /\ IsPrefix(start.loaded, final_file.text)
     /\ Range(start.loaded) \cap Range(produced) = {}
     /\ NoDuplicates(final_file.text)

\* C6: during a call the corpus in memory is the loaded corpus followed by the
\* records process_article returned, in order, and every snapshot the call has
\* saved is a prefix of it.
C6_AppendOnly ==
  Active
  => /\ all_articles_text = start.loaded \o produced
     /\ (SnapshotOfThisCall
           => IsPrefix(partial_file.text, WriteText(all_articles_text, platform)))

C6_Witness ==
  /\ Active /\ start.loaded # <<>> /\ Len(produced) >= 2
  /\ SnapshotOfThisCall
  /\ Len(partial_file.text) < Len(all_articles_text)
  /\ \E a \in handled : ~ok[a]

\* C7: when the article loop of an issue has ended, the persisted snapshot holds
\* every record produced so far.
C7_SavedAtEndOfIssue ==
  (pc = "issue_loop" /\ issue_idx >= 1 /\ produced # <<>>)
  => /\ partial_file.whole
     /\ ReadText(partial_file.text) = all_articles_text

\* C8: the work list of a call is the discovered list from resume_from onward
\* when resume_from is in it; else the discovered list without the issues of a
\* non-empty loaded done-set; else the discovered list; cut to the first
\* limit_issues entries when a limit is given.
C8_Resumed ==
  IF resume_from \in Range(Discovered)
  THEN LET p == CHOOSE j \in 1..Len(Discovered) : Discovered[j] = resume_from
       IN [j \in 1..(Len(Discovered) - p + 1) |-> Discovered[p + j - 1]]
  ELSE IF processed_issues # <<>>
       THEN SelectSeq(Discovered, LAMBDA u : \A m \in 1..Len(processed_issues) : processed_issues[m] # u)
       ELSE Discovered
C8_WorkList ==
  Active
  => issue_links = IF limit_issues > 0
                   THEN [j \in 1..Min(limit_issues, Len(C8_Resumed)) |-> C8_Resumed[j]]
                   ELSE C8_Resumed

C8_Witness ==
  /\ Active /\ resume_from # NoIssue /\ resume_from \notin Range(Discovered)
  /\ processed_issues # <<>>
  /\ issue_links # <<>> /\ issue_links # Discovered

\* C9: load_progress returns (None, [], "") when there is no progress file, and
\* after a completed save_progress(u, d, c) it returns (u, d, c).
C9_LoadReturnsSaved ==
  /\ loaded.absent => loaded.result = EmptyProgress
  /\ loaded.valid => loaded.result = [current_issue |-> loaded.saved.issue_url,
                                      processed_issues |-> loaded.saved.all_processed,
                                      all_articles_text |-> loaded.saved.text]

\* C10: when an exception raised inside the issue loop reaches the except
\* clause, save_progress has been called with the current issue and the corpus
\* so far, the exception that leaves the call is the one that was caught, and
\* the final corpus file has not been written.
C10_SaveThenReraise ==
  (pc = "finally" /\ hist.in_loop)
  => /\ hist.handler_save
     /\ save_args.issue_url = IssueUrl
     /\ save_args.text = all_articles_text
     /\ propagated = exc
     /\ ~hist.final_written

\* The call has reached its end without an exception, the final file written.
CompletedRun == pc = "finally" /\ exc = "" /\ propagated = "" /\ hist.final_written

\* C11: a failed stage (title rejected, no document address, both strategies
\* failed, content rejected) makes process_article return None; on a None the loop
\* goes on with the next article, the corpus and the exception state untouched;
\* and a call that ends without an exception has handled every article of every
\* issue of its work list.
C11_FailureContained ==
  /\ [](pc = "pa_return"
          => (returned = "none") = (fail \in {"title", "pdf_url", "download", "content"}))
  /\ [][(pc = "pa_return" /\ returned = "none")
          => /\ pc' = "article_loop"
             /\ article_idx' = article_idx + 1
             /\ UNCHANGED <<issue_idx, issue_links, all_articles_text, processed_count,
                            exc, propagated, store>>]_vars
  /\ [](CompletedRun
          => \A j \in 1..Len(issue_links) :
               Range(ArticleDataList(issue_links[j])) \subseteq handled)

\* A completed call in which the first article gave no record and both the next
\* article of the issue and an article of the following issue gave one.
C11_Witness ==
  /\ CompletedRun
  /\ Len(issue_links) >= 2
  /\ ArticleId(issue_links[1], 1) \in handled \ Range(produced)
  /\ ArticleId(issue_links[1], 2) \in Range(produced)
  /\ ArticleId(issue_links[2], 1) \in Range(produced)

\* The calls and results of the two strategies in the running process_article.
StrategyEvents ==
  SelectSeq(events, LAMBDA e : e \in {"requests", "requests_ok", "requests_failed",
                                      "selenium", "selenium_ok", "selenium_failed"})

\* C12: in every call of process_article the direct download is the first
\* strategy called; the browser strategy is called only right after the direct
\* download has returned failure; each is called at most once; when both have
\* failed the call returns None; and an article whose strategies have been called
\* has not been handled before in the run.
C12_StrategyOrder ==
  LET ev == StrategyEvents
  IN /\ ev # <<>> => ev[1] = "requests"
     /\ \A j \in 1..Len(ev) :
          ev[j] = "selenium" => j > 1 /\ ev[j - 1] = "requests_failed"
     /\ Count(ev, "requests") <= 1 /\ Count(ev, "selenium") <= 1
     /\ (pc = "pa_return" /\ "selenium_failed" \in Range(ev))
          => returned = "none" /\ fail = "download"
     /\ (ev # <<>> /\ pc # "except" /\ pc # "finally") => Art \notin handled

\* Both strategies have failed for an article that is not the first of the run.
C12_Witness ==
  /\ pc = "pa_return"
  /\ StrategyEvents = <<"requests", "requests_failed", "selenium", "selenium_failed">>
  /\ returned = "none"
  /\ handled # {}

RetriesExhausted == "retries_exhausted" \in Range(events)

\* C13 as claimed: once the retry loop has used up its attempts, the article is
\* a failure: process_article returns None for it.
C13_ExhaustionSkipsArticle ==
  (pc = "pa_return" /\ RetriesExhausted) => returned = "none"

\* C13 as amended: the retry loop gives up after max_retries failed attempts; the
\* direct download then returns None and no exception leaves it; the browser
\* strategy is called next, the article is a failure when that fails too, and
\* the loop goes on whatever the outcome.
C13_ExhaustionFallsBack ==
  /\ [](RetriesExhausted
          => /\ retry = max_retries - 1
             /\ "pdf" \in requests
             /\ exc = "" /\ pc # "except"
             /\ \E j \in 1..(Len(events) - 1) :
                  events[j] = "retries_exhausted" /\ events[j + 1] = "requests_failed"
             /\ pc = "pa_return"
                  => /\ "selenium" \in Range(events)
                     /\ "selenium_failed" \in Range(events)
                          => returned = "none" /\ fail = "download")
  /\ [][(pc = "pa_return" /\ RetriesExhausted)
          => pc' \in {"article_loop", "save_progress_file"} /\ exc' = ""]_vars

\* The retries were used up, the browser strategy fetched the document and the
\* article got its record.
C13_Witness ==
  /\ pc = "pa_return" /\ RetriesExhausted
  /\ "selenium_ok" \in Range(events)
  /\ returned = "record"

\* C14: when an acquisition of a reference has returned a document, the next
\* acquisition of the same reference makes no network request and returns the
\* same document.
C14_SecondAcquireIsLocal ==
  (pc = "acq_idle" /\ acq.calls >= 2 /\ acq.before.path)
  => /\ acq.requests = {}
     /\ acq.path
     /\ acq.file = acq.before.file

\* The plausibility check of a document: its file has at least SizeFloor bytes
\* or begins with the PDF signature.
Plausible(f) == f.exists /\ (f.size >= SizeFloor \/ f.pdf_sig)

\* C15: a document that a strategy has returned has passed the plausibility
\* check, and the direct download of a file that fails the check returns
\* failure, after which the browser strategy is called.
C15_ReturnedIsPlausible ==
  /\ (pc \in {"acquired", "content_filter", "pa_return"} /\ pdf_path) => Plausible(pdf_file)
  /\ (pc = "download_pdf_using_selenium" /\ "pdf" \in requests /\ ~RetriesExhausted
        /\ pdf_file.exists /\ ~Plausible(pdf_file))
       => ~pdf_path

C17_PrefilterFirst ==
  /\ (pc = "pa_return" /\ fail = "title")
       => /\ requests = {}
          /\ events = <<>>
          /\ ~pdf_path
          /\ extracted = ""
          /\ returned = "none"
  /\ pc = "should_process_article" => requests = {} /\ events = <<>>

\* The prefilter has rejected an article whose record has a PDF address and
\* whose file is not on disk, after an article that was downloaded.
C17_Witness ==
  /\ pc = "pa_return" /\ fail = "title"
  /\ article_data.has_pdf_url /\ ~pdf_file.exists
  /\ produced # <<>>

\* C20: when ranked detection has raised, or the extracted text is too short
\* to classify (empty included), process_article returns a record.
C20_FailOpenContent ==
  (pc = "pa_return" /\ extracted # ""
     /\ (~EnoughText(extracted) \/ "detect_langs_raised" \in Range(events)))
  => returned = "record" /\ fail = ""

\* Detection has raised on a long text and the article got its record.
C20_Witness ==
  /\ pc = "pa_return" /\ extracted = "long"
  /\ "detect_langs_raised" \in Range(events)
  /\ returned = "record"

\* The lowercased title holds a keyword of the two lists.
HasKeyword(t) ==
  \E k \in english_keywords \cup turkish_keywords : KeywordIn(k, TitleLower(TitleOf(t)))

\* C18 as claimed: the prefilter rejects an article exactly when its title is
\* detected as en or tr or its lowercased title holds a keyword.
C18_PrefilterVerdict ==
  title_check.done
  => (title_check.verdict
        = ~(title_check.detected \in {"en", "tr"} \/ HasKeyword(title_check.title)))

\* C18 as amended: the prefilter rejects an article exactly when detection of
\* its title has returned a language and that language is en or tr or the
\* lowercased title holds a keyword; it accepts every other article: a missing
\* or empty title, and any title on which detection raises.
C18_PrefilterVerdictWhenDetected ==
  title_check.done
  => (title_check.verdict
        = ~(/\ title_check.detected \in Langs
            /\ (title_check.detected \in {"en", "tr"} \/ HasKeyword(title_check.title))))

\* A title detected as a language that is not excluded is rejected for a
\* keyword that its lowercased form holds inside a longer word.
C18_Witness ==
  /\ title_check.done
  /\ title_check.detected = "hr"
  /\ title_check.title.words = <<"Prilozi", "Reviewer">>
  /\ ~title_check.verdict

\* C19: when detection raises on the title, should_process_article returns
\* true.
C19_FailOpenTitle ==
  (title_check.done /\ title_check.detected = DetectRaises) => title_check.verdict

\* Detection has raised on a title that is not empty, and the article is
\* accepted.
C19_Witness ==
  /\ title_check.done
  /\ title_check.detected = DetectRaises
  /\ TitleOf(title_check.title) # <<>>
  /\ title_check.verdict

\* C27: the retry loop makes at most max_retries attempts and leaves at the
\* first success; it stays in the loop only after a failed attempt that was not
\* the last, and then waits 2 * 2^(k-1) seconds after the k-th failure (2, 4,
\* 8, 16); it leaves without waiting, so there is no wait after the 5th
\* failure; and once entered the loop is always left.
C27_BoundedBackoff ==
  /\ [](/\ retry <= max_retries - 1
        /\ Len(slept) = retry
        /\ \A k \in 1..Len(slept) : slept[k] = 2 * 2^(k - 1))
  /\ [][/\ (pc = "retry_loop" /\ pc' = "retry_loop")
           => (retry < max_retries - 1 /\ retry' = retry + 1
               /\ slept' = Append(slept, 2 * 2^retry))
        /\ (pc = "retry_loop" /\ pc' # "retry_loop") => slept' = slept]_vars
  /\ ((pc = "retry_loop") ~> (pc # "retry_loop"))

\* The fifth attempt has failed after the waits 2, 4, 8 and 16.
C27_Witness ==
  /\ RetriesExhausted
  /\ retry = max_retries - 1
  /\ slept = <<2, 4, 8, 16>>

\* The pages of the call's document that returned a non-empty string.
PagesWithText ==
  IF ext.doc.path /\ ext.doc.opens
  THEN {j \in DOMAIN ext.doc.pages : ext.doc.pages[j] \in {"blank", "text"}}
  ELSE {}

\* C22: extract_text_from_pdf never raises to its caller: whatever fails (no
\* file, opening or reading, a page, the OCR pass), the call ends with a
\* returned string; and the string is empty when no page gave a string and the
\* OCR pass gave no text.
C22_ExtractNeverRaises ==
  /\ ext.raised = FALSE
  /\ (pc = "extract_returned") = ext.done
  /\ (ext.done /\ PagesWithText = {} /\ ~(ext.ocr_ran /\ ext.doc.ocr = "text"))
       => ext.result = <<>>

\* A document that opens, whose only page fails and whose OCR pass fails too,
\* has returned the empty string.
C22_Witness ==
  /\ ext.done
  /\ ext.doc.path /\ ext.doc.opens
  /\ ext.doc.pages = <<"raise">>
  /\ ext.ocr_ran /\ ext.doc.ocr = "raise"
  /\ ext.result = <<>>

\* The texts of the pages from j on that returned a non-empty string, each with
\* its "\n", in page order.
RECURSIVE PagesInOrder(_, _)
PagesInOrder(pages, j) ==
  IF j > Len(pages) THEN <<>>
  ELSE (IF pages[j] \in {"blank", "text"} THEN PageText(j, pages[j]) \o <<LF>> ELSE <<>>)
       \o PagesInOrder(pages, j + 1)

\* C29: when the primary extraction of an opened document is over, its text is
\* the text of every page that extracted, in page order, whichever pages failed.
C29_PageFailureContained ==
  (pc = "extract_ocr_check" /\ ext.doc.opens)
  => ext.text = PagesInOrder(ext.doc.pages, 1)

\* The second of three pages failed and the text of the first and of the third
\* is the result of the primary extraction.
C29_Witness ==
  /\ pc = "extract_ocr_check"
  /\ ext.doc.opens
  /\ ext.doc.pages = <<"text", "raise", "text">>
  /\ ext.text = <<CharA + 1, LF, CharA + 3, LF>>

\* C28: the OCR pass runs exactly when the primary text is blank and the module
\* has OCR; a primary text that is not blank is returned unchanged without OCR;
\* and the returned text differs from the primary text only when the OCR pass
\* ran and gave text that is not blank, which is then what is returned.
C28_OcrFallback ==
  (ext.done /\ ext.doc.path)
  => /\ ext.ocr_ran = (Blank(ext.primary) /\ ext.doc.ocr_available)
     /\ ~Blank(ext.primary) => (~ext.ocr_ran /\ ext.result = ext.primary)
     /\ ext.result # ext.primary
          => (/\ ext.ocr_ran
              /\ ext.doc.ocr = "text"
              /\ ~Blank(OcrText(ext.doc.ocr))
              /\ ext.result = OcrText(ext.doc.ocr))
     /\ (ext.ocr_ran /\ (ext.doc.ocr = "raise" \/ Blank(OcrText(ext.doc.ocr))))
          => ext.result = ext.primary

\* A primary text of white space only has been replaced by the text of the OCR
\* pass.
C28_Witness ==
  /\ ext.done
  /\ ext.primary = <<SP, LF>>
  /\ ext.ocr_ran
  /\ ext.result = <<CharO, LF, LF>>

\* C23: cleaning the output of the cleaning changes nothing.
C23_CleanIdempotent ==
  (pc = "clean_idle" /\ Len(direct.outs) = 2) => direct.outs[2] = direct.outs[1]

\* C30: in the output of the cleaning, paragraphs are separated by exactly one
\* blank line and hold no line break: the line feeds come in pairs, never one
\* alone and never three or more in a row.
C30_OneBlankLine ==
  (pc = "clean_idle" /\ Len(direct.outs) >= 1)
  => \A k \in 1..Len(direct.outs[1]) :
       direct.outs[1][k] = LF /\ (k = 1 \/ direct.outs[1][k - 1] # LF)
       => RunEnd(direct.outs[1], k, {LF}) - k = 2

\* The Cyrillic block of Unicode, U+0400 to U+04FF.
IsCyrillicLetter(ch) == ch \in 1024..1279

\* C21: when the text is long enough and the detector answers, the article is
\* accepted exactly when a target language has probability above 0.7, or a
\* related language has probability above 0.8 with more than 5 indicator
\* words, or the text has any Cyrillic character.
C21_ContentVerdict ==
  (direct.done /\ direct.enough /\ ~direct.raised)
  => ((direct.verdict = "record")
        = (\/ direct.content.target
           \/ direct.content.related /\ direct.content.indicators > 5
           \/ IsCyrillicLetter(direct.content.letter)))

\* Where the text of the sentinel begins in t. Two occurrences never share a
\* character ("<" is its first character only), so these are the places where
\* corpus.split("<***>") cuts.
SentinelStarts(t) == {p \in 1..(Len(t) - 4) : SubSeq(t, p, p + 4) = SentinelText}

\* corpus.split("<***>"): the text before the first sentinel, between one
\* sentinel and the next, and after the last.
SplitAtSentinel(t) ==
  LET cuts == SentinelStarts(t)
      n == Cardinality(cuts)
      cut(k) == CHOOSE p \in cuts : Cardinality({q \in cuts : q < p}) = k - 1
  IN [k \in 1..(n + 1) |->
        SubSeq(t, IF k = 1 THEN 1 ELSE cut(k - 1) + 5,
                  IF k = n + 1 THEN Len(t) ELSE cut(k) - 1)]

\* C24: splitting a corpus of formatted records at the sentinel gives the
\* records back in order (nothing before the first sentinel, then every record
\* without its sentinel), for every body text and every metadata value.
C24_SplitRecoversRecords ==
  pc = "format_idle"
  => LET pieces == SplitAtSentinel(direct.corpus)
     IN /\ Len(pieces) = Len(direct.calls) + 1
        /\ pieces[1] = <<>>
        /\ \A k \in 1..Len(direct.calls) :
             SentinelText \o pieces[k + 1] = direct.calls[k].record

\* A record ends with exactly one blank line: an empty line after the line
\* feed that ends its last line of text.
EndsWithOneBlankLine(r) ==
  /\ Len(r) >= 3
  /\ r[Len(r)] = LF
  /\ r[Len(r) - 1] = LF
  /\ r[Len(r) - 2] # LF

\* C25: every record, of an empty and of a non-empty text, begins with the
\* sentinel line and ends with exactly one blank line.
C25_RecordFrame ==
  pc = "format_idle"
  => \A k \in 1..Len(direct.calls) :
       /\ SubSeq(direct.calls[k].record, 1, 6) = SentinelText \o <<LF>>
       /\ EndsWithOneBlankLine(direct.calls[k].record)

\* The eight field lines from field k on, in the claimed order.
RECURSIVE FieldLines(_, _)
FieldLines(metadata, k) ==
  IF k > 8 THEN <<>>
  ELSE Label(<<"NOVINA", "DATUM", "RUBRIKA", "NADNASLOV", "NASLOV", "PODNASLOV",
               "STRANA", "AUTOR(I)">>[k])
       \o metadata[FieldNames[k]] \o <<LF>> \o FieldLines(metadata, k + 1)

\* C26: every record is the sentinel line, then the eight fields in order, one
\* line each, then the rest; the rest of a record of an empty text is the
\* closing line feeds alone; records of the same metadata have the same header.
C26_HeaderFields ==
  pc = "format_idle"
  => \A k \in 1..Len(direct.calls) :
       LET c == direct.calls[k]
           header == SentinelText \o <<LF>> \o FieldLines(c.metadata, 1)
       IN /\ Len(c.record) >= Len(header)
          /\ SubSeq(c.record, 1, Len(header)) = header
          /\ c.text = <<>> => c.record = header \o <<LF, LF>>
          /\ \A j \in 1..Len(direct.calls) :
               direct.calls[j].metadata = c.metadata
               => SubSeq(direct.calls[j].record, 1, Len(header)) = header

\* A record of an empty text and a record of a text, for the same metadata.
C26_Witness ==
  /\ pc = "format_idle"
  /\ Len(direct.calls) = 2
  /\ direct.calls[1].text = <<>>
  /\ direct.calls[2].text = <<CharA, LF>>
  /\ direct.calls[1].metadata = direct.calls[2].metadata
  /\ Len(direct.calls[2].record) = Len(direct.calls[1].record) + 2

\* The positions of t where the header stands.
HeaderStarts(t, header) == {p \in 1..Len(t) : StartsAt(t, p, header)}

\* C31: a pass over a text that holds its section header once, with a line
\* feed right after it, leaves the text before the header followed by the text
\* from the next sentinel on, or the text before the header alone when no
\* sentinel follows.
C31_SectionRemoved ==
  (pc = "marked_idle" /\ direct.pass \in SectionNames)
  => LET t == direct.text
         header == SectionHeader(direct.pass)
         heads == HeaderStarts(t, header)
         p == CHOOSE q \in heads : TRUE
         after == p + Len(header) + 1
         sentinels == {d \in after..Len(t) : StartsAt(t, d, SentinelText)}
         d1 == CHOOSE d \in sentinels : \A m \in sentinels : d <= m
     IN (/\ Cardinality(heads) = 1
         /\ p + Len(header) <= Len(t)
         /\ t[p + Len(header)] = LF)
        => direct.out = SubSeq(t, 1, p - 1)
                        \o (IF sentinels = {} THEN <<>> ELSE SubSeq(t, d1, Len(t)))

\* The characters of w stand somewhere in t.
Holds(t, w) == \E p \in 1..Len(t) : StartsAt(t, p, w)

\* C32: the cleaned text holds neither "UDK" nor "DOI:", and a text that is a
\* single line with the keyword marker is removed entirely, the characters
\* before the marker included.
C32_MarkedLinesRemoved ==
  (pc = "marked_idle" /\ direct.pass = "clean")
  => /\ ~Holds(direct.out, UdkMarker)
     /\ ~Holds(direct.out, DoiMarker)
     /\ (Holds(direct.text, KeywordMarker) /\ ~Holds(direct.text, <<LF>>))
          => direct.out = <<>>

\* C33: the processed_issues list of the progress file never holds an issue
\* more than once.
C33_NoDuplicateIssues ==
  progress_file.st = "ok" => NoDuplicates(progress_file.processed_issues)

\* The records appended to the corpus since the last completed save of the
\* running call, or since the call began when it has not saved yet.
Unsaved ==
  IF SnapshotOfThisCall
  THEN Len(all_articles_text) - Len(partial_file.text)
  ELSE processed_count

\* C34: between two article iterations fewer than save_interval records have
\* been appended since the last completed save.
C34_BoundedLoss ==
  pc = "article_loop" => (Unsaved >= 0 /\ Unsaved <= save_interval - 1)

\* With save_interval 2 the third record of a call has been appended after the
\* save that followed the second.
C34_Witness ==
  /\ pc = "article_loop"
  /\ save_interval = 2
  /\ processed_count = 3
  /\ SnapshotOfThisCall
  /\ Unsaved = 1

\* C35: when the call returns normally after appending a record, the text of
\* all_articles_partial.txt equals the text of all_articles.txt.
C35_SnapshotEqualsFinal ==
  (Returning /\ produced # <<>>)
  => /\ partial_file.exists
     /\ partial_file.whole
     /\ partial_file.text = final_file.text

\* The direct download has returned the file it found, without a request.
ReturnedFromCache == pc = "acquired" /\ pdf_path /\ requests = {}

\* C36: a file that the cache check returns was written to the end by a
\* download; a download that failed while the body was streamed has left no
\* file that a later acquisition takes from the cache.
C36_CachedIsComplete == ReturnedFromCache => pdf_file.complete

\* C37: a document that the acquisition of an article takes from the cache was
\* downloaded for that article, whether the article has an identifier or gets
\* the fallback identifier.
C37_CachedIsOwn ==
  (pc = "names_idle" /\ direct.last.cached) => direct.last.owner = direct.last.article

====
